---- MODULE Spec2Model ----
(***************************************************************************)
(* Bundle pricing and validation engine: app/utils/bundle.server.ts,       *)
(* app/utils/bundle.ts and the selection-time validators of the routes.    *)
(*                                                                         *)
(* JavaScript numbers that come from REAL columns or from prices are       *)
(* modelled as exact rationals [num, den] in lowest terms with den > 0;    *)
(* null is the record NullNum (den = 0), which is no rational.  INTEGER    *)
(* NOT NULL columns and counts are integers; an INTEGER column that may    *)
(* be null holds IntOf(n), the one-element sequence of the integer n, or   *)
(* NullInt, the empty sequence.  Strings that may be absent use NullStr.   *)
(***************************************************************************)
EXTENDS Integers, Sequences, FiniteSets, TLC

\* bundle, selectedItems, tierId, quantity: the arguments of a call of
\* calculateBundlePricing; result: the value it returns; applicableRule: its
\* local of that name (the rule found in the VOLUME branch); pc: before or
\* after the call.
VARIABLES bundle, selectedItems, tierId, quantity, result, applicableRule, pc

\* fsArgs: the arguments of a call of formatSavings; fsResult: its locals
\* savings and percent and the string it returns.
VARIABLES fsArgs, fsResult

\* config: the argument of a call of validateBundle; validation: the value
\* it returns.
VARIABLES config, validation

\* inventory: what the shop's inventory answered for each variant when the
\* storefront validator asked;
\* adminResponse, storefrontResponse: the answers of the two selection-time
\* validators to one request (bundle, selectedItems, tierId, quantity);
\* storefrontCall: where the storefront validator is in that request, the
\* bundle it has found and the instant it has read from the clock.
VARIABLES inventory, adminResponse, storefrontResponse, storefrontCall

\* store: the bundles in the database, by id; request: the last request a
\* route has served; response: what the route answered to it, NoResponse
\* while its handler waits; flight: what each handler keeps between two of
\* its calls of prisma; categoryCount: the number of BundleCategory rows
\* created so far; served: the number of requests the
\* routes have taken up so far.
VARIABLES store, request, response, flight, categoryCount, served

\* snapshots: the rows of BundleInventorySnapshot, in the order of their
\* creation, which is the order of checkedAt.
VARIABLES snapshots

callVars == <<bundle, selectedItems, tierId, quantity>>
pricingVars == <<result, applicableRule>>
savingsVars == <<fsArgs, fsResult>>
validateVars == <<config, validation>>
validatorVars == <<inventory, adminResponse, storefrontResponse, storefrontCall>>
routeVars == <<store, request, response, flight, categoryCount, served,
               snapshots>>

vars == <<bundle, selectedItems, tierId, quantity, result, applicableRule, pc,
          fsArgs, fsResult, config, validation,
          inventory, adminResponse, storefrontResponse, storefrontCall,
          store, request, response, flight, categoryCount, served, snapshots>>

\* ------------------------------------------------------------------------
\* Bounds of the model
\* ------------------------------------------------------------------------
MaxItems == 2
MaxRules == 2
MaxTiers == 2
MaxQuantity == 2

\* ------------------------------------------------------------------------
\* null / undefined
\* ------------------------------------------------------------------------
NullInt == <<>>
IntOf(n) == <<n>>
NullStr == "<null>"
\* a property that is absent from an object reads as undefined, which is
\* not null
UndefinedStr == "<undefined>"
UndefinedList == <<"<undefined>">>

\* ------------------------------------------------------------------------
\* Natural numbers of any size
\* ------------------------------------------------------------------------
\* TLC's integers have 32 bits and a Number has a 53-bit significand, so a
\* natural number is the sequence of its digits to the base 2^15, the
\* lowest digit first and the highest digit not 0; <<>> is zero.
Limb == 2^15

Digit(a, i) == IF i >= 1 /\ i <= Len(a) THEN a[i] ELSE 0

\* the digits up to the highest that is not 0
Trim(a) ==
    IF a = <<>> \/ a[Len(a)] # 0 THEN a
    ELSE SubSeq(a, 1, Cardinality({i \in 1..Len(a) :
                                      \E j \in i..Len(a) : a[j] # 0}))

RECURSIVE NatOf(_)
NatOf(n) == IF n = 0 THEN <<>> ELSE <<n % Limb>> \o NatOf(n \div Limb)

\* the number as an integer, for numbers below 2^31
RECURSIVE IntOfNat(_)
IntOfNat(a) == IF a = <<>> THEN 0 ELSE a[1] + Limb * IntOfNat(Tail(a))

\* a + b: a carry enters digit i from the nearest digit below it whose sum
\* is not 2^15 - 1, if that sum is above
Carry(a, b, i) ==
    \E j \in 1..(i - 1) :
        /\ Digit(a, j) + Digit(b, j) >= Limb
        /\ \A k \in (j + 1)..(i - 1) : Digit(a, k) + Digit(b, k) = Limb - 1

AddDigits(a, b, n) ==
    [i \in 1..n |->
        (Digit(a, i) + Digit(b, i) + (IF Carry(a, b, i) THEN 1 ELSE 0)) % Limb]

BAdd(a, b) ==
    IF b = <<>> THEN a ELSE IF a = <<>> THEN b
    ELSE Trim(AddDigits(a, b, (IF Len(a) < Len(b) THEN Len(b) ELSE Len(a)) + 1))

\* a - b, for a >= b: digit i lends to the nearest digit below it that
\* differs, if that digit of a is the lower
Borrow(a, b, i) ==
    \E j \in 1..(i - 1) :
        /\ a[j] < Digit(b, j)
        /\ \A k \in (j + 1)..(i - 1) : a[k] = Digit(b, k)

BSub(a, b) ==
    IF b = <<>> THEN a
    ELSE Trim([i \in 1..Len(a) |->
                  (a[i] - Digit(b, i) - (IF Borrow(a, b, i) THEN 1 ELSE 0)
                       + Limb) % Limb])

\* -1, 0 or 1 as a is below, equal to or above b
BCmp(a, b) ==
    IF Len(a) # Len(b) THEN (IF Len(a) < Len(b) THEN -1 ELSE 1)
    ELSE IF a = b THEN 0
    ELSE IF \E i \in 1..Len(a) :
                a[i] < b[i] /\ \A j \in (i + 1)..Len(a) : a[j] = b[j]
    THEN -1 ELSE 1

\* a * 2^(15 n)
ShiftLimbs(a, n) ==
    IF a = <<>> \/ n = 0 THEN a
    ELSE [i \in 1..(Len(a) + n) |-> IF i <= n THEN 0 ELSE a[i - n]]

\* a * k, for k below 2^15: the low halves of the products of the digits
\* and the high halves one digit up
BMulSmall(a, k) ==
    IF k = 0 \/ a = <<>> THEN <<>> ELSE IF k = 1 THEN a
    ELSE BAdd(Trim([i \in 1..Len(a) |-> (a[i] * k) % Limb]),
              ShiftLimbs(Trim([i \in 1..Len(a) |-> (a[i] * k) \div Limb]), 1))

RECURSIVE BMul(_, _)
BMul(a, b) ==
    IF a = <<>> \/ b = <<>> THEN <<>>
    ELSE IF Len(a) > Len(b) THEN BMul(b, a)
    ELSE IF Len(a) = 1 THEN BMulSmall(b, a[1])
    ELSE BAdd(BMul(Trim(SubSeq(a, 1, Len(a) \div 2)), b),
              ShiftLimbs(BMul(SubSeq(a, (Len(a) \div 2) + 1, Len(a)), b),
                         Len(a) \div 2))

\* a * 2^k
BShl(a, k) == IF k = 0 THEN a ELSE ShiftLimbs(BMulSmall(a, 2^(k % 15)), k \div 15)

\* a \div 2^k
ShrBits(a, s) ==
    [i \in 1..Len(a) |-> (a[i] \div 2^s) + (Digit(a, i + 1) % 2^s) * 2^(15 - s)]

BShr(a, k) ==
    IF k = 0 THEN a
    ELSE IF k \div 15 >= Len(a) THEN <<>>
    ELSE Trim(ShrBits(SubSeq(a, (k \div 15) + 1, Len(a)), k % 15))

\* the number of binary digits
RECURSIVE BitsOf(_)
BitsOf(x) == IF x = 0 THEN 0 ELSE 1 + BitsOf(x \div 2)

BitLen(a) == IF a = <<>> THEN 0 ELSE 15 * (Len(a) - 1) + BitsOf(a[Len(a)])

\* binary digit k (the lowest is digit 0), and whether a digit below k is 1
Bit(a, k) == (Digit(a, (k \div 15) + 1) \div 2^(k % 15)) % 2

BitsBelow(a, k) ==
    \/ \E i \in 1..(k \div 15) : Digit(a, i) # 0
    \/ Digit(a, (k \div 15) + 1) % 2^(k % 15) # 0

\* a \div b and a % b by long division, for b with its highest digit at
\* least 2^14: the digit of the quotient is estimated from the two highest
\* digits of the remainder and lowered until it fits
RECURSIVE DivFrom(_, _, _, _, _)
RECURSIVE DivFix(_, _, _, _, _, _, _)
DivFix(a, b, i, q, r, qh, product) ==
    IF BCmp(product, r) > 0
    THEN DivFix(a, b, i, q, r, qh - 1, BSub(product, b))
    ELSE DivFrom(a, b, i - 1, <<qh>> \o q, BSub(r, product))

DivStart(a, b, i, q, r, qh) == DivFix(a, b, i, q, r, qh, BMulSmall(b, qh))

DivEstimate(a, b, i, q, r, qh) ==
    DivStart(a, b, i, q, r, IF qh >= Limb THEN Limb - 1 ELSE qh)

DivFrom(a, b, i, q, r) ==
    IF i = 0 THEN [q |-> Trim(q), r |-> r]
    ELSE IF r = <<>> /\ a[i] = 0 THEN DivFrom(a, b, i - 1, <<0>> \o q, r)
    ELSE DivEstimate(a, b, i, q, <<a[i]>> \o r,
                     (Digit(r, Len(b)) * Limb + Digit(r, Len(b) - 1))
                         \div b[Len(b)])

\* a \div b and a % b for b below 2^15
RECURSIVE ShortFrom(_, _, _, _, _)
ShortDigit(a, k, i, q, r) == ShortFrom(a, k, i - 1, <<r \div k>> \o q, r % k)

ShortFrom(a, k, i, q, r) ==
    IF i = 0 THEN [q |-> Trim(q), r |-> NatOf(r)]
    ELSE ShortDigit(a, k, i, q, r * Limb + a[i])

\* the digits of a above the length of b cannot hold a digit of the quotient
Unshifted(d, s) == [q |-> d.q, r |-> BShr(d.r, s)]

DivLong(a, b, s) ==
    Unshifted(IF Len(a) < Len(b) THEN [q |-> <<>>, r |-> a]
              ELSE DivFrom(a, b, Len(a) - Len(b) + 1, <<>>,
                           SubSeq(a, Len(a) - Len(b) + 2, Len(a))),
              s)

\* both are multiplied by 2^s, which makes the highest digit of b 2^14 or more
Normalised(a, b, s) == DivLong(BShl(a, s), BShl(b, s), s)

\* a \div b and a % b, for b > 0
BDivMod(a, b) ==
    IF Len(b) = 1 THEN ShortFrom(a, b[1], Len(a), <<>>, 0)
    ELSE Normalised(a, b, 15 - BitsOf(b[Len(b)]))

\* 10^n
Square(a) == BMul(a, a)

RECURSIVE Pow10(_)
Pow10(n) ==
    IF n = 0 THEN <<1>>
    ELSE IF n % 2 = 1 THEN BMulSmall(Pow10(n - 1), 10)
    ELSE Square(Pow10(n \div 2))

\* the decimal digits of a natural number, four at a time
RECURSIVE Decimal(_)
DecimalDigits(d) ==
    IF d.q = <<>> THEN ToString(IntOfNat(d.r))
    ELSE Decimal(d.q)
         \o SubSeq(ToString(10^4 + IntOfNat(d.r)), 2, 5)
Decimal(a) ==
    IF a = <<>> THEN "" ELSE DecimalDigits(ShortFrom(a, 10^4, Len(a), <<>>, 0))

\* ------------------------------------------------------------------------
\* Numbers
\* ------------------------------------------------------------------------
\* A Number is an IEEE 754 double: NaN, an infinity, or
\* (-1)^neg * m * 2^e with m an odd natural number below 2^53 (m = <<>> and
\* e = 0 for the two zeros), so that the same number is the same value.
\* null and undefined are the two values that are no number.
Number(kind, neg, m, e) == [kind |-> kind, neg |-> neg, m |-> m, e |-> e]

NaN == Number("NaN", FALSE, <<>>, 0)
Infinite(neg) == Number("Infinity", neg, <<>>, 0)
Zero(neg) == Number("finite", neg, <<>>, 0)
NullNum == Number("null", FALSE, <<>>, 0)
UndefinedNum == Number("undefined", FALSE, <<>>, 0)

Max(a, b) == IF a < b THEN b ELSE a
Min(a, b) == IF a < b THEN a ELSE b

RECURSIVE LowZeroBits(_)
LowZeroBits(x) == IF x % 2 = 1 THEN 0 ELSE 1 + LowZeroBits(x \div 2)

RECURSIVE ZeroBitsFrom(_, _)
ZeroBitsFrom(a, i) ==
    IF a[i] = 0 THEN 15 + ZeroBitsFrom(a, i + 1) ELSE LowZeroBits(a[i])

\* m * 2^e with the factors of two moved from m to e
Shifted(neg, m, e, k) == Number("finite", neg, BShr(m, k), e + k)

Canonical(neg, m, e) ==
    IF m = <<>> THEN Zero(neg)
    ELSE IF m[1] % 2 = 1 THEN Number("finite", neg, m, e)
    ELSE Shifted(neg, m, e, ZeroBitsFrom(m, 1))

\* round to nearest, ties to even: the lowest d binary digits of m are dropped
\* (more says that the number is above m * 2^e, by less than 2^e)
RoundUp(m, d, more) ==
    Bit(m, d - 1) = 1 /\ (more \/ BitsBelow(m, d - 1) \/ Bit(m, d) = 1)

Raised(q, up) == IF up THEN BAdd(q, <<1>>) ELSE q

Rounded(m, d, more) ==
    IF d = 0 THEN m ELSE Raised(BShr(m, d), RoundUp(m, d, more))

\* the double nearest to m * 2^e: 53 binary digits are kept, fewer below
\* 2^-1022, and from 2^1024 on the result is an infinity
Finished(neg, q, e) ==
    IF BitLen(q) + e > 1024 THEN Infinite(neg) ELSE Canonical(neg, q, e)

RoundAt(neg, m, e, d, more) == Finished(neg, Rounded(m, d, more), e + d)

Round(neg, m, e) ==
    RoundAt(neg, m, e, Max(0, Max(BitLen(m) - 53, -1074 - e)), FALSE)

\* the integer n as a Number
R(n) == Canonical(n < 0, NatOf(IF n < 0 THEN -n ELSE n), 0)

\* ToNumber of a number, null or undefined
ToNumber(x) ==
    IF x.kind = "null" THEN Zero(FALSE)
    ELSE IF x.kind = "undefined" THEN NaN
    ELSE x

IsZero(a) == a.kind = "finite" /\ a.m = <<>>

Negate(a) == IF a.kind = "NaN" THEN a ELSE [a EXCEPT !.neg = ~a.neg]

\* x * y
Multiply(a, b) ==
    IF a.kind = "NaN" \/ b.kind = "NaN" THEN NaN
    ELSE IF a.kind = "Infinity" \/ b.kind = "Infinity"
    THEN (IF IsZero(a) \/ IsZero(b) THEN NaN ELSE Infinite(a.neg # b.neg))
    ELSE Round(a.neg # b.neg, BMul(a.m, b.m), a.e + b.e)

RMul(x, y) == Multiply(ToNumber(x), ToNumber(y))

\* x / y: the quotient of the significands to 56 binary digits or more, and
\* whether the division left a remainder
QuotientOf(d, neg, e) ==
    RoundAt(neg, d.q, e, Max(0, Max(BitLen(d.q) - 53, -1074 - e)), d.r # <<>>)

Quotient(a, b, k) ==
    QuotientOf(BDivMod(BShl(a.m, k), b.m), a.neg # b.neg, a.e - b.e - k)

Divide(a, b) ==
    IF a.kind = "NaN" \/ b.kind = "NaN" THEN NaN
    ELSE IF a.kind = "Infinity"
    THEN (IF b.kind = "Infinity" THEN NaN ELSE Infinite(a.neg # b.neg))
    ELSE IF b.kind = "Infinity" THEN Zero(a.neg # b.neg)
    ELSE IF IsZero(b)
    THEN (IF IsZero(a) THEN NaN ELSE Infinite(a.neg # b.neg))
    ELSE IF IsZero(a) THEN Zero(a.neg # b.neg)
    ELSE Quotient(a, b, Max(0, 56 + BitLen(b.m) - BitLen(a.m)))

RDiv(x, y) == Divide(ToNumber(x), ToNumber(y))

\* x + y (a number more than 2^64 times the other is the sum)
\* the sum of (-1)^aneg * ma and (-1)^bneg * mb, both times 2^e; c compares
\* ma with mb
SumOf(aneg, ma, bneg, mb, e, c) ==
    IF aneg # bneg /\ c = 0 THEN Zero(FALSE)
    ELSE Round(IF aneg = bneg \/ c > 0 THEN aneg ELSE bneg,
               IF aneg = bneg THEN BAdd(ma, mb)
               ELSE IF c > 0 THEN BSub(ma, mb) ELSE BSub(mb, ma),
               e)

Aligned(aneg, ma, bneg, mb, e) == SumOf(aneg, ma, bneg, mb, e, BCmp(ma, mb))

SumAt(a, b, e) ==
    Aligned(a.neg, BShl(a.m, a.e - e), b.neg, BShl(b.m, b.e - e), e)

Add(a, b) ==
    IF a.kind = "NaN" \/ b.kind = "NaN" THEN NaN
    ELSE IF a.kind = "Infinity"
    THEN (IF b.kind = "Infinity" /\ a.neg # b.neg THEN NaN ELSE a)
    ELSE IF b.kind = "Infinity" THEN b
    ELSE IF IsZero(a) /\ IsZero(b) THEN Zero(a.neg /\ b.neg)
    ELSE IF IsZero(a) THEN b
    ELSE IF IsZero(b) THEN a
    ELSE IF BitLen(a.m) + a.e > BitLen(b.m) + b.e + 64 THEN a
    ELSE IF BitLen(b.m) + b.e > BitLen(a.m) + a.e + 64 THEN b
    ELSE SumAt(a, b, Min(a.e, b.e))

RAdd(x, y) == Add(ToNumber(x), ToNumber(y))
RSub(x, y) == Add(ToNumber(x), Negate(ToNumber(y)))

\* -1, 0 or 1 as a is below, equal to or above b, for a and b not NaN
MagnitudeCmp(a, b) ==
    IF a.kind = "Infinity" \/ b.kind = "Infinity"
    THEN (IF a.kind = b.kind THEN 0 ELSE IF a.kind = "Infinity" THEN 1 ELSE -1)
    ELSE IF BitLen(a.m) + a.e # BitLen(b.m) + b.e
    THEN (IF BitLen(a.m) + a.e < BitLen(b.m) + b.e THEN -1 ELSE 1)
    ELSE BCmp(BShl(a.m, a.e - Min(a.e, b.e)), BShl(b.m, b.e - Min(a.e, b.e)))

Sign(a) == IF IsZero(a) THEN 0 ELSE IF a.neg THEN -1 ELSE 1

Cmp(a, b) ==
    IF Sign(a) # Sign(b) THEN (IF Sign(a) < Sign(b) THEN -1 ELSE 1)
    ELSE Sign(a) * MagnitudeCmp(a, b)

IsNaN(x) == ToNumber(x).kind = "NaN"

\* x < y, x <= y
RLt(x, y) == ~IsNaN(x) /\ ~IsNaN(y) /\ Cmp(ToNumber(x), ToNumber(y)) < 0
RLe(x, y) == ~IsNaN(x) /\ ~IsNaN(y) /\ Cmp(ToNumber(x), ToNumber(y)) <= 0

\* Math.max(x, y)
Larger(a, b, c) ==
    IF c > 0 THEN a ELSE IF c < 0 THEN b ELSE IF a.neg THEN b ELSE a

RMax(x, y) ==
    IF IsNaN(x) \/ IsNaN(y) THEN NaN
    ELSE Larger(ToNumber(x), ToNumber(y), Cmp(ToNumber(x), ToNumber(y)))


\* ------------------------------------------------------------------------
\* Numbers as text
\* ------------------------------------------------------------------------
RECURSIVE Zeros(_)
Zeros(n) ==
    IF n <= 0 THEN "" ELSE IF n % 2 = 1 THEN "0" \o Zeros(n - 1)
    ELSE Zeros(n \div 2) \o Zeros(n \div 2)

\* the shortest decimal number that reads back as the positive number
\* m * 2^e, nearest to it if there are several (Number::toString): the
\* number is r / s * 10^n with r / s below 1, up / s and down / s are the
\* half distances to the next Numbers, and ends says that the ends of the
\* interval read back as the number (its significand is even).  The result
\* is the digits as a natural number and n: the number 0.digits * 10^n.
\* step k: the first k digits q of r / s, what is left, rest / s, and the
\* half distances times 10^k
Step(d, p, up, down) ==
    [q |-> d.q, rest |-> d.r, up |-> BMul(p, up), down |-> BMul(p, down)]

StepWith(p, r, s, up, down) == Step(BDivMod(BMul(p, r), s), p, up, down)

\* 17 digits tell a Number from every other
Steps(r, s, up, down) ==
    [k \in 1..17 |-> StepWith(Pow10(k), r, s, up, down)]

AtMost(c, ends) == IF ends THEN c <= 0 ELSE c < 0
AtLeast(c, ends) == IF ends THEN c >= 0 ELSE c > 0

Low(st, ends) == AtMost(BCmp(st.rest, st.down), ends)
High(st, s, ends) == AtLeast(BCmp(BAdd(st.rest, st.up), s), ends)

\* the digits end at the first step where q or q + 1 reads back
Stops(st, s, ends) == Low(st, ends) \/ High(st, s, ends)

Nearer(c, q) == c < 0 \/ (c = 0 /\ Digit(q, 1) % 2 = 0)

LastDigit(st, s, ends, n) ==
    IF Low(st, ends)
       /\ (~High(st, s, ends) \/ Nearer(BCmp(BMulSmall(st.rest, 2), s), st.q))
    THEN [digits |-> st.q, n |-> n]
    ELSE [digits |-> BAdd(st.q, <<1>>), n |-> n]

GenerateFrom(steps, s, ends, n) ==
    LastDigit(steps[CHOOSE k \in DOMAIN steps :
                        /\ Stops(steps[k], s, ends)
                        /\ \A j \in 1..(k - 1) : ~Stops(steps[j], s, ends)],
              s, ends, n)

Generate(r, s, up, down, ends, n) ==
    GenerateFrom(Steps(r, s, up, down), s, ends, n)

\* s is raised until r / s is below 1 with the upper end of the interval
RECURSIVE Fixup(_, _, _, _, _, _)
Fixup(r, s, up, down, ends, n) ==
    IF AtLeast(BCmp(BAdd(r, up), s), ends)
    THEN Fixup(r, BMulSmall(s, 10), up, down, ends, n + 1)
    ELSE Generate(r, s, up, down, ends, n)

\* 10^est is at most the number
Scaled(r, s, up, down, ends, est, p, q) ==
    Fixup(BMul(r, p), BMul(s, q), BMul(up, p), BMul(down, p), ends, est)

Scale(r, s, up, down, ends, est) ==
    Scaled(r, s, up, down, ends, est,
           Pow10(IF est < 0 THEN -est ELSE 0), Pow10(IF est < 0 THEN 0 ELSE est))

\* f * 2^e with f the 53-digit significand (fewer digits below 2^-1022):
\* the number below f * 2^e is half as far as the number above if f = 2^52
Narrow(f, e) == IF f = ShiftLimbs(<<2^7>>, 3) /\ e > -1074 THEN 1 ELSE 0

Estimate(f, e) == (((BitLen(f) + e - 1) * 30102) \div 100000) - 1

ShortestOf(f, e, eUp, eDown, narrow) ==
    Scale(BShl(f, eUp + narrow + 1), BShl(<<1>>, eDown + narrow + 1),
          BShl(<<1>>, eUp + narrow), BShl(<<1>>, eUp), f[1] % 2 = 0,
          Estimate(f, e))

Halves(f, e) ==
    ShortestOf(f, e, IF e < 0 THEN 0 ELSE e, IF e < 0 THEN -e ELSE 0, Narrow(f, e))

\* the significand of 53 digits: m * 2^e = (m * 2^k) * 2^(e - k)
Widened(a, k) == Halves(BShl(a.m, k), a.e - k)

Shortest(a) == Widened(a, Min(53 - BitLen(a.m), a.e + 1074))

Exponent(n) == IF n < 0 THEN "e-" \o ToString(-n) ELSE "e+" \o ToString(n)

\* Number::toString
Layout(s, n) ==
    IF Len(s) <= n /\ n <= 21 THEN s \o Zeros(n - Len(s))
    ELSE IF 0 < n /\ n <= 21
    THEN SubSeq(s, 1, n) \o "." \o SubSeq(s, n + 1, Len(s))
    ELSE IF -6 < n /\ n <= 0 THEN "0." \o Zeros(-n) \o s
    ELSE IF Len(s) = 1 THEN s \o Exponent(n - 1)
    ELSE SubSeq(s, 1, 1) \o "." \o SubSeq(s, 2, Len(s)) \o Exponent(n - 1)

ShortestText(sh) == Layout(Decimal(sh.digits), sh.n)

NumberToString(a) ==
    IF a.kind = "NaN" THEN "NaN"
    ELSE IF IsZero(a) THEN "0"
    ELSE IF a.kind = "Infinity" THEN (IF a.neg THEN "-Infinity" ELSE "Infinity")
    ELSE (IF a.neg THEN "-" ELSE "") \o ShortestText(Shortest(a))

\* the natural number nearest to m * 2^e, the half upwards
Nearest(m, e) ==
    IF e >= 0 THEN BShl(m, e)
    ELSE IF Bit(m, -e - 1) = 1 THEN BAdd(BShr(m, -e), <<1>>)
    ELSE BShr(m, -e)

\* the natural number n as n / 10^digits
Padded(s, n) == Zeros(n - Len(s)) \o s

Pointed(s, digits) ==
    IF digits = 0 THEN s
    ELSE SubSeq(s, 1, Len(s) - digits) \o "."
         \o SubSeq(s, Len(s) - digits + 1, Len(s))

Fixed(n, digits) == Pointed(Padded(Decimal(n), digits + 1), digits)

\* Number.prototype.toFixed(digits): the number is rounded as it is, not
\* as its shortest decimal number is
toFixed(a, digits) ==
    IF a.kind # "finite" \/ MagnitudeCmp(a, Number("finite", FALSE, Pow10(21), 0)) >= 0
    THEN NumberToString(a)
    ELSE (IF a.neg /\ a.m # <<>> THEN "-" ELSE "")
         \o Fixed(Nearest(BMul(a.m, Pow10(digits)), a.e), digits)

\* the natural number nearest to digits * 10^shift, the half upwards
HalfUp(d, p) == IF BCmp(BMulSmall(d.r, 2), p) >= 0 THEN BAdd(d.q, <<1>>) ELSE d.q

DivideHalfUp(a, p) == HalfUp(BDivMod(a, p), p)

HalfExpand(digits, shift) ==
    IF shift >= 0 THEN BMul(digits, Pow10(shift))
    ELSE DivideHalfUp(digits, Pow10(-shift))

\* the digits before the decimal separator in groups of three
RECURSIVE Grouped(_)
Grouped(s) ==
    IF Len(s) <= 3 THEN s
    ELSE Grouped(SubSeq(s, 1, Len(s) - 3)) \o "." \o SubSeq(s, Len(s) - 2, Len(s))

\* the natural number n as n / 100 in the locale nl-NL
Amount(s) ==
    Grouped(SubSeq(s, 1, Len(s) - 3)) \o "," \o SubSeq(s, Len(s) - 1, Len(s))

Hundredths(sh) ==
    Amount(Fixed(HalfExpand(sh.digits, sh.n + 2 - Len(Decimal(sh.digits))), 2))

\* Intl.NumberFormat("nl-NL", {style: "currency"}).format without the
\* currency sign: the shortest decimal number that reads back as the amount
\* is rounded to hundredths, the half away from zero; an amount below
\* 2^-20 has no hundredths.  The sign of infinity is written U+221E.
CurrencyAmount(a) ==
    IF a.kind = "NaN" THEN "NaN"
    ELSE (IF a.neg THEN "-" ELSE "")
         \o (IF a.kind = "Infinity" THEN "U+221E"
             ELSE IF IsZero(a) \/ BitLen(a.m) + a.e < -20 THEN "0,00"
             ELSE Hundredths(Shortest(a)))

\* Number.prototype.toFixed(2)
toFixed2(a) == toFixed(a, 2)

\* ------------------------------------------------------------------------
\* Enumerations (app/types/bundle.ts)
\* ------------------------------------------------------------------------
FIXED == "FIXED"
MIX_MATCH == "MIX_MATCH"
VOLUME == "VOLUME"
TIERED == "TIERED"

PERCENTAGE == "percentage"
FIXED_AMOUNT == "fixed_amount"
FIXED_PRICE == "fixed_price"
FIXED_PRICE_PER_ITEM == "fixed_price_per_item"

\* JavaScript truthiness of an optional string / optional integer
TruthyStr(s) == s # NullStr /\ s # UndefinedStr /\ s # ""
TruthyInt(n) == Len(n) = 1 /\ n[1] # 0

\* `${s}` in a template string: null and undefined are written by name
Interpolated(s) ==
    IF s = NullStr THEN "null" ELSE IF s = UndefinedStr THEN "undefined" ELSE s

\* A template string with one interpolated number: prefix, number, suffix.
Label(prefix, arg, suffix) == [prefix |-> prefix, arg |-> arg, suffix |-> suffix]
Msg(prefix, arg, suffix) == [prefix |-> prefix, arg |-> arg, suffix |-> suffix]
PlainLabel(text) == Label(text, NullNum, "")
PlainMsg(text) == Msg(text, NullInt, "")

\* appliedDiscount: AppliedDiscount | null
NoDiscount == [type |-> NullStr, value |-> NullNum, label |-> PlainLabel("")]

\* ------------------------------------------------------------------------
\* applyDiscount
\* ------------------------------------------------------------------------
\* mutation of PercentageOff: the discount itself instead of the price after it
PercentageOff_discountOnly(originalPrice, discountValue) ==
    RMul(originalPrice, RDiv(discountValue, R(100)))

\* case DiscountType.PERCENTAGE
PercentageOff(originalPrice, discountValue) ==
    RMul(originalPrice, RSub(R(1), RDiv(discountValue, R(100))))

\* mutation of FixedAmountOff: no clamp at zero
FixedAmountOff_noClamp(originalPrice, discountValue) ==
    RSub(originalPrice, discountValue)

\* case DiscountType.FIXED_AMOUNT
FixedAmountOff(originalPrice, discountValue) ==
    RMax(R(0), RSub(originalPrice, discountValue))

\* mutation of FixedPricePerItemOff: the value is taken as the total
FixedPricePerItemOff_asTotal(originalPrice, discountValue) == discountValue

\* case DiscountType.FIXED_PRICE_PER_ITEM
FixedPricePerItemOff(originalPrice, discountValue) == originalPrice

\* the three labels that hold discountValue.toFixed(2)
AmountLabel(discountType, amount) ==
    CASE discountType = FIXED_AMOUNT -> Label("EUR ", amount, " off")
      [] discountType = FIXED_PRICE -> Label("EUR ", amount, "")
      [] discountType = FIXED_PRICE_PER_ITEM -> Label("EUR ", amount, " per item")

DiscountLabel(discountType, discountValue) ==
    CASE discountType = PERCENTAGE -> Label("", discountValue, "% off")
      [] discountType \in {FIXED_AMOUNT, FIXED_PRICE, FIXED_PRICE_PER_ITEM} ->
             AmountLabel(discountType, toFixed2(discountValue))
      [] OTHER -> PlainLabel("")

applyDiscount(originalPrice, discountType, discountValue) ==
    [discountedPrice |->
         CASE discountType = PERCENTAGE ->
                  PercentageOff(originalPrice, discountValue)
           [] discountType = FIXED_AMOUNT ->
                  FixedAmountOff(originalPrice, discountValue)
           [] discountType = FIXED_PRICE -> discountValue
           [] discountType = FIXED_PRICE_PER_ITEM ->
                  FixedPricePerItemOff(originalPrice, discountValue)
           [] OTHER -> originalPrice,
     appliedDiscount |-> [type |-> discountType,
                          value |-> discountValue,
                          label |-> DiscountLabel(discountType, discountValue)]]

\* ------------------------------------------------------------------------
\* findApplicableVolumeRule
\* ------------------------------------------------------------------------
\* Array.prototype.sort with comparator (a, b) => b.minQuantity - a.minQuantity:
\* a stable sort, descending by minQuantity.
RECURSIVE InsertByMinQuantityDesc(_, _)
InsertByMinQuantityDesc(sorted, rule) ==
    IF sorted = <<>> THEN <<rule>>
    ELSE IF Head(sorted).minQuantity >= rule.minQuantity
         THEN <<Head(sorted)>> \o InsertByMinQuantityDesc(Tail(sorted), rule)
         ELSE <<rule>> \o sorted

RECURSIVE SortByMinQuantityDesc(_)
SortByMinQuantityDesc(rules) ==
    IF rules = <<>> THEN <<>>
    ELSE InsertByMinQuantityDesc(
             SortByMinQuantityDesc(SubSeq(rules, 1, Len(rules) - 1)),
             rules[Len(rules)])

RuleApplies(rule, q) ==
    /\ q >= rule.minQuantity
    /\ (rule.maxQuantity = NullInt \/ q <= rule.maxQuantity[1])

NoRule == [id |-> NullStr, minQuantity |-> 0, maxQuantity |-> NullInt,
           discountType |-> NullStr, discountValue |-> NullNum,
           label |-> NullStr]

RECURSIVE FirstApplicable(_, _)
FirstApplicable(sortedRules, q) ==
    IF sortedRules = <<>> THEN NoRule
    ELSE IF RuleApplies(Head(sortedRules), q) THEN Head(sortedRules)
         ELSE FirstApplicable(Tail(sortedRules), q)

\* mutation of findApplicableVolumeRule: the rules are scanned in stored order
findApplicableVolumeRule_unsorted(rules, q) ==
    FirstApplicable(rules, q)

findApplicableVolumeRule(rules, q) ==
    FirstApplicable(SortByMinQuantityDesc(rules), q)

\* ------------------------------------------------------------------------
\* calculateBundlePricing
\* ------------------------------------------------------------------------
\* selectedItems.reduce((sum, i) => sum + i.quantity, 0)
RECURSIVE SumQuantity(_)
SumQuantity(items) ==
    IF items = <<>> THEN 0
    ELSE SumQuantity(SubSeq(items, 1, Len(items) - 1)) + items[Len(items)].quantity

\* the loop accumulating originalPrice += item.price * item.quantity
RECURSIVE SumItemTotals(_)
SumItemTotals(items) ==
    IF items = <<>> THEN R(0)
    ELSE RAdd(SumItemTotals(SubSeq(items, 1, Len(items) - 1)),
              RMul(items[Len(items)].price, R(items[Len(items)].quantity)))

InitialItemPrices(items) ==
    [i \in DOMAIN items |->
        [productId |-> items[i].productId,
         variantId |-> items[i].variantId,
         originalPrice |-> items[i].price,
         discountedPrice |-> items[i].price,
         quantity |-> items[i].quantity]]

\* What a branch of the switch leaves in discountedPrice, appliedDiscount,
\* isValid and errors.
Branch(discountedPrice, appliedDiscount, isValid, errors) ==
    [discountedPrice |-> discountedPrice,
     appliedDiscount |-> appliedDiscount,
     isValid |-> isValid,
     errors |-> errors]

\* bundle.discountType && bundle.discountValue !== null
DiscountConfigured(b) ==
    TruthyStr(b.discountType) /\ b.discountValue # NullNum

\* what applyDiscount returned, taken over as it is
Applied(r) == Branch(r.discountedPrice, r.appliedDiscount, TRUE, <<>>)

\* discountedPrice = bundle.price * quantity
BundlePriceApplied(b, qty) ==
    Branch(RMul(b.price, R(qty)),
           [type |-> FIXED_PRICE,
            value |-> b.price,
            label |-> Label("Bundle price: EUR ", toFixed2(b.price), "")],
           TRUE, <<>>)

\* mutation of PriceFixed: a configured discount takes precedence over the price
PriceFixed_discountFirst(b, originalPrice, qty) ==
    IF DiscountConfigured(b)
    THEN Applied(applyDiscount(originalPrice, b.discountType, b.discountValue))
    ELSE IF b.price # NullNum THEN BundlePriceApplied(b, qty)
         ELSE Branch(originalPrice, NoDiscount, TRUE, <<>>)

\* case BundleType.FIXED
PriceFixed(b, originalPrice, qty) ==
    IF b.price # NullNum THEN BundlePriceApplied(b, qty)
    ELSE IF DiscountConfigured(b)
         THEN Applied(applyDiscount(originalPrice, b.discountType, b.discountValue))
         ELSE Branch(originalPrice, NoDiscount, TRUE, <<>>)

\* case BundleType.MIX_MATCH
BelowMinProducts(b, totalProducts) ==
    TruthyInt(b.minProducts) /\ totalProducts < b.minProducts[1]

\* mutation of AboveMaxProducts: the upper bound is exclusive
AboveMaxProducts_exclusive(b, totalProducts) ==
    TruthyInt(b.maxProducts) /\ totalProducts >= b.maxProducts[1]

AboveMaxProducts(b, totalProducts) ==
    TruthyInt(b.maxProducts) /\ totalProducts > b.maxProducts[1]

MinProductsError(b) == Msg("Minimum ", b.minProducts, " products required")
MaxProductsError(b) == Msg("Maximum ", b.maxProducts, " products allowed")

\* the two bounds are checked on totalProducts; r is the price and the
\* discount the branch has set before
MixMatchChecked(b, r, totalProducts) ==
    Branch(r.discountedPrice, r.appliedDiscount,
           ~BelowMinProducts(b, totalProducts)
               /\ ~AboveMaxProducts(b, totalProducts),
           (IF BelowMinProducts(b, totalProducts)
            THEN <<MinProductsError(b)>> ELSE <<>>)
           \o (IF AboveMaxProducts(b, totalProducts)
               THEN <<MaxProductsError(b)>> ELSE <<>>))

PriceMixMatch(b, items, originalPrice) ==
    MixMatchChecked(
        b,
        IF DiscountConfigured(b)
        THEN applyDiscount(originalPrice, b.discountType, b.discountValue)
        ELSE [discountedPrice |-> originalPrice, appliedDiscount |-> NoDiscount],
        SumQuantity(items))

\* case BundleType.VOLUME
\* mutation of VolumeTotalQuantity: the bundle quantity is left out
VolumeTotalQuantity_perBundle(items, qty) == SumQuantity(items)

VolumeTotalQuantity(items, qty) == SumQuantity(items) * qty

\* rule.label || appliedDiscount.label
RuleApplied(rule, r) ==
    Branch(r.discountedPrice,
           [r.appliedDiscount EXCEPT
               !.label = IF TruthyStr(rule.label)
                         THEN PlainLabel(rule.label)
                         ELSE r.appliedDiscount.label],
           TRUE, <<>>)

\* if (applicableRule) { ... }
PriceByRule(rule, originalPrice) ==
    IF rule # NoRule
    THEN RuleApplied(rule, applyDiscount(originalPrice, rule.discountType,
                                         rule.discountValue))
    ELSE Branch(originalPrice, NoDiscount, TRUE, <<>>)

PriceVolume(b, items, originalPrice, qty) ==
    PriceByRule(findApplicableVolumeRule(b.volumeRules,
                                         VolumeTotalQuantity(items, qty)),
                originalPrice)

\* case BundleType.TIERED
NoTier == [id |-> NullStr, name |-> NullStr, price |-> NullNum,
           productCount |-> 0]

\* bundle.tiers.find((t) => t.id === tierId)
RECURSIVE FindTier(_, _)
FindTier(tiers, id) ==
    IF tiers = <<>> THEN NoTier
    ELSE IF Head(tiers).id = id THEN Head(tiers)
         ELSE FindTier(Tail(tiers), id)

TierCountMismatch(tier, items) == SumQuantity(items) # tier.productCount

TierCountError(tier) ==
    Msg(tier.name \o " requires exactly ", IntOf(tier.productCount), " products")

TierPriceDiscount(tier) ==
    [type |-> FIXED_PRICE,
     value |-> tier.price,
     label |-> Label(tier.name \o ": EUR ", toFixed2(tier.price), "")]

\* mutation of TierSelected: a count mismatch blocks the tier price
TierSelected_priceOnlyIfCountOk(tier, items, originalPrice, qty) ==
    IF TierCountMismatch(tier, items)
    THEN Branch(originalPrice, NoDiscount, FALSE, <<TierCountError(tier)>>)
    ELSE Branch(RMul(tier.price, R(qty)), TierPriceDiscount(tier), TRUE, <<>>)

\* if (selectedTier) { ... }
TierSelected(tier, items, originalPrice, qty) ==
    Branch(RMul(tier.price, R(qty)),
           TierPriceDiscount(tier),
           ~TierCountMismatch(tier, items),
           IF TierCountMismatch(tier, items) THEN <<TierCountError(tier)>> ELSE <<>>)

\* mutation of TierNotFound: the error is pushed but isValid stays true
TierNotFound_stillValid(originalPrice) ==
    Branch(originalPrice, NoDiscount, TRUE, <<PlainMsg("Invalid tier selected")>>)

\* the else of if (selectedTier)
TierNotFound(originalPrice) ==
    Branch(originalPrice, NoDiscount, FALSE, <<PlainMsg("Invalid tier selected")>>)

\* mutation of TierNotSelected: a missing tierId is reported as an invalid one
TierNotSelected_asInvalid(originalPrice) ==
    Branch(originalPrice, NoDiscount, FALSE, <<PlainMsg("Invalid tier selected")>>)

\* the else of if (tierId)
TierNotSelected(originalPrice) ==
    Branch(originalPrice, NoDiscount, FALSE, <<PlainMsg("Please select a tier")>>)

PriceByTier(selectedTier, items, originalPrice, qty) ==
    IF selectedTier # NoTier
    THEN TierSelected(selectedTier, items, originalPrice, qty)
    ELSE TierNotFound(originalPrice)

PriceTiered(b, items, tid, originalPrice, qty) ==
    IF TruthyStr(tid)
    THEN PriceByTier(FindTier(b.tiers, tid), items, originalPrice, qty)
    ELSE TierNotSelected(originalPrice)

\* mutation of FinalItemPrices: the rewrite is lost
FinalItemPrices_unchanged(items, appliedDiscount, originalPrice, discountedPrice) ==
    InitialItemPrices(items)

\* the per-item rewrite by the discount ratio
ItemPricesBy(items, discountRatio) ==
    [i \in DOMAIN items |->
        [InitialItemPrices(items)[i] EXCEPT
            !.discountedPrice = RMul(items[i].price, discountRatio)]]

FinalItemPrices(items, appliedDiscount, originalPrice, discountedPrice) ==
    IF appliedDiscount # NoDiscount /\ RLt(R(0), originalPrice)
    THEN ItemPricesBy(items, RDiv(discountedPrice, originalPrice))
    ELSE InitialItemPrices(items)

\* mutation of SavingsPercent: no guard on originalPrice
SavingsPercent_noGuard(originalPrice, savingsAmount) ==
    RMul(RDiv(savingsAmount, originalPrice), R(100))

SavingsPercent(originalPrice, savingsAmount) ==
    IF RLt(R(0), originalPrice)
    THEN RMul(RDiv(savingsAmount, originalPrice), R(100))
    ELSE R(0)

\* the returned PricingResult
PricingResult(items, originalPrice, br, savingsAmount) ==
    [originalPrice |-> originalPrice,
     discountedPrice |-> br.discountedPrice,
     savingsAmount |-> savingsAmount,
     savingsPercent |-> SavingsPercent(originalPrice, savingsAmount),
     itemPrices |-> FinalItemPrices(items, br.appliedDiscount, originalPrice,
                                    br.discountedPrice),
     appliedDiscount |-> br.appliedDiscount,
     isValid |-> br.isValid,
     validationErrors |-> br.errors]

\* const savingsAmount = originalPrice - discountedPrice
AfterSwitch(items, originalPrice, br) ==
    PricingResult(items, originalPrice, br,
                  RSub(originalPrice, br.discountedPrice))

\* switch (bundle.type)
PriceByType(b, items, tid, qty, originalPrice) ==
    AfterSwitch(
        items, originalPrice,
        CASE b.type = FIXED -> PriceFixed(b, originalPrice, qty)
          [] b.type = MIX_MATCH -> PriceMixMatch(b, items, originalPrice)
          [] b.type = VOLUME -> PriceVolume(b, items, originalPrice, qty)
          [] b.type = TIERED -> PriceTiered(b, items, tid, originalPrice, qty)
          [] OTHER -> Branch(originalPrice, NoDiscount, TRUE, <<>>))

calculateBundlePricing(b, items, tid, qty) ==
    PriceByType(b, items, tid, qty, RMul(SumItemTotals(items), R(qty)))

\* ------------------------------------------------------------------------
\* Inputs of a pricing call
\* ------------------------------------------------------------------------
SeqsUpTo(S, n) == UNION {[1..k -> S] : k \in 0..n}

ItemPriceValues == {R(0), R(10), R(25)}
ItemQuantityValues == {1, 2}

\* SelectedItem[]; the ids play no part in pricing and are fixed by position
Selections ==
    {[i \in DOMAIN s |->
         [productId |-> "p" \o ToString(i),
          variantId |-> "v" \o ToString(i),
          quantity |-> s[i].quantity,
          price |-> s[i].price]] :
     s \in SeqsUpTo([quantity : ItemQuantityValues, price : ItemPriceValues],
                    MaxItems)}

Quantities == 1..MaxQuantity

DiscountTypeValues ==
    {NullStr, PERCENTAGE, FIXED_AMOUNT, FIXED_PRICE, FIXED_PRICE_PER_ITEM, "other"}
DiscountValueValues == {NullNum, R(0), R(10), R(100)}
BundlePriceValues == {NullNum, R(0), R(50)}
MinProductsValues == {NullInt, IntOf(0), IntOf(3)}
MaxProductsValues == {NullInt, IntOf(-1), IntOf(0), IntOf(1), IntOf(3)}

\* VolumeRule rows: ids are unique (primary key), fixed by position
RuleDiscounts ==
    {[discountType |-> PERCENTAGE, discountValue |-> R(10), label |-> NullStr],
     [discountType |-> FIXED_AMOUNT, discountValue |-> R(100), label |-> "Bulk deal"]}
RuleMinValues == {1, 3}
RuleMaxValues == {NullInt, IntOf(-1), IntOf(2), IntOf(5)}

VolumeRuleLists ==
    {[i \in DOMAIN s |->
         [id |-> "r" \o ToString(i),
          minQuantity |-> s[i].min,
          maxQuantity |-> s[i].max,
          discountType |-> s[i].d.discountType,
          discountValue |-> s[i].d.discountValue,
          label |-> s[i].d.label]] :
     s \in SeqsUpTo([min : RuleMinValues, max : RuleMaxValues, d : RuleDiscounts],
                    MaxRules)}

\* BundleTier rows: ids are unique (primary key), fixed by position
TierPriceValues == {R(0), R(65)}
TierCountValues == {2, 3}

TierLists ==
    {[i \in DOMAIN s |->
         [id |-> "t" \o ToString(i),
          name |-> "Tier " \o ToString(i),
          price |-> s[i].price,
          productCount |-> s[i].productCount]] :
     s \in SeqsUpTo([price : TierPriceValues, productCount : TierCountValues],
                    MaxTiers)}

TierIdValues == {NullStr, "", "tX"} \cup {"t" \o ToString(i) : i \in 1..MaxTiers}

BundleRow(type, price, discountType, discountValue, minP, maxP, rules, tiers) ==
    [type |-> type, price |-> price,
     discountType |-> discountType, discountValue |-> discountValue,
     minProducts |-> minP, maxProducts |-> maxP,
     volumeRules |-> rules, tiers |-> tiers]

FixedBundles ==
    {BundleRow(FIXED, p, dt, dv, NullInt, NullInt, <<>>, <<>>) :
        p \in BundlePriceValues, dt \in DiscountTypeValues, dv \in DiscountValueValues}

MixMatchBundles ==
    {BundleRow(MIX_MATCH, NullNum, dt, dv, mn, mx, <<>>, <<>>) :
        dt \in DiscountTypeValues, dv \in DiscountValueValues,
        mn \in MinProductsValues, mx \in MaxProductsValues}

VolumeBundles ==
    {BundleRow(VOLUME, NullNum, NullStr, NullNum, NullInt, NullInt, rs, <<>>) :
        rs \in VolumeRuleLists}

TieredBundles ==
    {BundleRow(TIERED, NullNum, NullStr, NullNum, NullInt, NullInt, <<>>, ts) :
        ts \in TierLists}

\* Bundle.type is a TEXT column: a row whose type is none of the four takes
\* no branch of the switch
UntypedBundles ==
    {BundleRow("OTHER", p, dt, dv, NullInt, NullInt, <<>>, <<>>) :
        p \in BundlePriceValues, dt \in {NullStr, PERCENTAGE},
        dv \in {NullNum, R(10)}}

Bundles ==
    FixedBundles \cup MixMatchBundles \cup VolumeBundles \cup TieredBundles
        \cup UntypedBundles

NoResult ==
    [originalPrice |-> NullNum, discountedPrice |-> NullNum,
     savingsAmount |-> NullNum, savingsPercent |-> NullNum,
     itemPrices |-> <<>>, appliedDiscount |-> NoDiscount,
     isValid |-> FALSE, validationErrors |-> <<>>]

\* ------------------------------------------------------------------------
\* formatSavings (app/utils/bundle.ts)
\* ------------------------------------------------------------------------
\* Number.prototype.toFixed(0)
toFixed0(a) == toFixed(a, 0)

\* Intl.NumberFormat("nl-NL", {style: "currency", currency}).format, with
\* EUR and a space for the sign of the currency and the no-break space
formatPrice(price) == Label("EUR ", CurrencyAmount(ToNumber(price)), "")

\* `Save ${formatPrice(savings)}`
SavePrice(price) == Label("Save " \o price.prefix, price.arg, "")

SavingsText(savings, percent, showPercent) ==
    [savings |-> savings,
     percent |-> percent,
     text |-> IF showPercent
              THEN Label("Save ", toFixed0(percent), "%")
              ELSE SavePrice(formatPrice(savings))]

\* const percent = (savings / originalPrice) * 100
SavingsOf(savings, originalPrice, showPercent) ==
    SavingsText(savings, RMul(RDiv(savings, originalPrice), R(100)), showPercent)

formatSavings(originalPrice, discountedPrice, showPercent) ==
    SavingsOf(RSub(originalPrice, discountedPrice), originalPrice, showPercent)

SavingsPriceValues ==
    {R(0), R(10), R(17), R(25), R(40), R(50), R(55), R(100),
     RDiv(R(199), R(10)), RDiv(R(1005), R(1000))}

NoSavingsArgs ==
    [originalPrice |-> NullNum, discountedPrice |-> NullNum, showPercent |-> FALSE]
NoSavingsResult ==
    [savings |-> NullNum, percent |-> NullNum, text |-> PlainLabel("")]

SavingsIdle == fsArgs = NoSavingsArgs /\ fsResult = NoSavingsResult

\* the variables of a pricing call, when no such call is modelled
NoBundle == BundleRow(NullStr, NullNum, NullStr, NullNum, NullInt, NullInt, <<>>, <<>>)

PricingIdle ==
    /\ bundle = NoBundle
    /\ selectedItems = <<>>
    /\ tierId = NullStr
    /\ quantity = 1
    /\ result = NoResult
    /\ applicableRule = NoRule

\* ------------------------------------------------------------------------
\* validateBundle
\* ------------------------------------------------------------------------
\* A title is a sequence of characters; String.prototype.trim removes the
\* white space and the line terminators at both ends: space, tab, line
\* feed, carriage return, form feed, U+000B, U+00A0, U+1680, U+FEFF, and
\* U+2000 to U+200A, U+2028, U+2029, U+202F, U+205F and U+3000, which are
\* written as the section on the characters of a string says.
WhiteSpace == {" ", "\t", "\n", "\r", "\f", "", " ", " ", "﻿",
               "U+2000", "U+2001", "U+2002", "U+2003", "U+2004", "U+2005",
               "U+2006", "U+2007", "U+2008", "U+2009", "U+200A", "U+2028",
               "U+2029", "U+202F", "U+205F", "U+3000"}

RECURSIVE trimStart(_)
trimStart(s) ==
    IF s # <<>> /\ Head(s) \in WhiteSpace THEN trimStart(Tail(s)) ELSE s

RECURSIVE trimEnd(_)
trimEnd(s) ==
    IF s # <<>> /\ s[Len(s)] \in WhiteSpace
    THEN trimEnd(SubSeq(s, 1, Len(s) - 1)) ELSE s

trim(s) == trimEnd(trimStart(s))

\* new Date(string).getTime(), in seconds: the instant the string denotes
DateTime(s) ==
    CASE s = "2026-01-01" -> 1767225600
      [] s = "2026-01-01T00:00:00.000Z" -> 1767225600
      [] s = "2026-01-02" -> 1767312000

ValidationError(field, message, code) ==
    [field |-> field, message |-> message, code |-> code]

\* !list || list.length === 0
MissingOrEmpty(list) == list = UndefinedList \/ Len(list) = 0

TitleCheck(b) ==
    IF b.title = UndefinedList \/ b.title = <<>> \/ trim(b.title) = <<>>
    THEN <<ValidationError("title", "Title is required", "REQUIRED")>>
    ELSE <<>>

TypeCheck(b) ==
    IF ~TruthyStr(b.type)
    THEN <<ValidationError("type", "Bundle type is required", "REQUIRED")>>
    ELSE <<>>

FixedChecks(b) ==
    (IF MissingOrEmpty(b.items)
     THEN <<ValidationError("items", "Fixed bundles must have at least one item",
                            "MIN_ITEMS")>>
     ELSE <<>>)
    \o
    (IF b.price = NullNum /\ b.discountType = NullStr
     THEN <<ValidationError("price", "Fixed bundles must have a price or discount",
                            "REQUIRED")>>
     ELSE <<>>)

MixMatchChecks(b) ==
    (IF MissingOrEmpty(b.items)
     THEN <<ValidationError("items", "Mix & Match bundles must have available items",
                            "MIN_ITEMS")>>
     ELSE <<>>)
    \o
    (IF TruthyInt(b.minProducts) /\ TruthyInt(b.maxProducts)
        /\ b.minProducts[1] > b.maxProducts[1]
     THEN <<ValidationError("minProducts", "Minimum products cannot exceed maximum",
                            "INVALID_RANGE")>>
     ELSE <<>>)

VolumeChecks(b) ==
    IF MissingOrEmpty(b.volumeRules)
    THEN <<ValidationError("volumeRules",
                           "Volume bundles must have at least one discount rule",
                           "MIN_RULES")>>
    ELSE <<>>

TieredChecks(b) ==
    IF MissingOrEmpty(b.tiers)
    THEN <<ValidationError("tiers", "Tiered bundles must have at least one tier",
                           "MIN_TIERS")>>
    ELSE <<>>

TypeSpecificChecks(b) ==
    CASE b.type = FIXED -> FixedChecks(b)
      [] b.type = MIX_MATCH -> MixMatchChecks(b)
      [] b.type = VOLUME -> VolumeChecks(b)
      [] b.type = TIERED -> TieredChecks(b)
      [] OTHER -> <<>>

\* mutation of DateRangeCheck: equal dates pass
DateRangeCheck_equalAllowed(b) ==
    IF TruthyStr(b.startDate) /\ TruthyStr(b.endDate)
       /\ DateTime(b.startDate) > DateTime(b.endDate)
    THEN <<ValidationError("endDate", "End date must be after start date",
                           "INVALID_DATE_RANGE")>>
    ELSE <<>>

DateRangeCheck(b) ==
    IF TruthyStr(b.startDate) /\ TruthyStr(b.endDate)
       /\ DateTime(b.startDate) >= DateTime(b.endDate)
    THEN <<ValidationError("endDate", "End date must be after start date",
                           "INVALID_DATE_RANGE")>>
    ELSE <<>>

ValidationResult(errors) == [isValid |-> Len(errors) = 0, errors |-> errors]

\* mutation of validateBundle: it returns at the first failed check
validateBundle_shortCircuit(b) ==
    LET errors == TitleCheck(b) \o TypeCheck(b) \o TypeSpecificChecks(b)
                    \o DateRangeCheck(b)
    IN  ValidationResult(IF errors = <<>> THEN <<>> ELSE <<Head(errors)>>)

validateBundle(b) ==
    ValidationResult(TitleCheck(b) \o TypeCheck(b) \o TypeSpecificChecks(b)
                       \o DateRangeCheck(b))

\* ------------------------------------------------------------------------
\* POST /api/pricing/validate: the admin validator
\* ------------------------------------------------------------------------
\* A message is the sequence of the parts of its template string, numbers
\* printed in decimal.
RECURSIVE RequiredItemErrors(_, _)
RequiredItemErrors(requiredItems, selected) ==
    IF requiredItems = <<>> THEN <<>>
    ELSE LET requiredItem == Head(requiredItems)
             found == SelectSeq(selected,
                          LAMBDA s : \/ s.variantId = requiredItem.shopifyVariantId
                                     \/ s.productId = requiredItem.shopifyProductId)
             here ==
                 IF found = <<>>
                 THEN <<ValidationError("selectedItems",
                            <<"Required item missing: ", requiredItem.productTitle>>,
                            "REQUIRED_ITEM_MISSING")>>
                 ELSE IF Head(found).quantity < requiredItem.quantity
                 THEN <<ValidationError("selectedItems",
                            <<"Insufficient quantity for ", requiredItem.productTitle,
                              ": need ", ToString(requiredItem.quantity),
                              ", got ", ToString(Head(found).quantity)>>,
                            "INSUFFICIENT_QUANTITY")>>
                 ELSE <<>>
         IN  here \o RequiredItemErrors(Tail(requiredItems), selected)

AdminFixedChecks(b, selected) ==
    RequiredItemErrors(SelectSeq(b.items, LAMBDA item : item.isRequired), selected)
    \o
    (IF b.price = NullNum /\ b.discountType = NullStr
     THEN <<ValidationError("price", <<"Bundle has no price or discount configured">>,
                            "NO_PRICING")>>
     ELSE <<>>)

AdminProductCountChecks(b, selected) ==
    LET totalProducts == SumQuantity(selected)
    IN  (IF TruthyInt(b.minProducts) /\ totalProducts < b.minProducts[1]
         THEN <<ValidationError("selectedItems",
                    <<"Minimum ", ToString(b.minProducts[1]),
                      " products required, got ", ToString(totalProducts)>>,
                    "MIN_PRODUCTS")>>
         ELSE <<>>)
        \o
        (IF TruthyInt(b.maxProducts) /\ totalProducts > b.maxProducts[1]
         THEN <<ValidationError("selectedItems",
                    <<"Maximum ", ToString(b.maxProducts[1]),
                      " products allowed, got ", ToString(totalProducts)>>,
                    "MAX_PRODUCTS")>>
         ELSE <<>>)

\* the selected items that belong to the category
AdminCategoryItems(category, selected) ==
    SelectSeq(selected,
        LAMBDA s : \E k \in DOMAIN category.items :
                      \/ category.items[k].shopifyVariantId = s.variantId
                      \/ category.items[k].shopifyProductId = s.productId)

AdminCategoryTotal(category, selected) ==
    SumQuantity(AdminCategoryItems(category, selected))

AdminCategoryErrors(category, categoryTotal) ==
    (IF category.minSelect # 0 /\ categoryTotal < category.minSelect
     THEN <<ValidationError("categories",
                <<category.name, ": minimum ", ToString(category.minSelect),
                  " items required, got ", ToString(categoryTotal)>>,
                "CATEGORY_MIN")>>
     ELSE <<>>)
    \o
    (IF TruthyInt(category.maxSelect) /\ categoryTotal > category.maxSelect[1]
     THEN <<ValidationError("categories",
                <<category.name, ": maximum ", ToString(category.maxSelect[1]),
                  " items allowed, got ", ToString(categoryTotal)>>,
                "CATEGORY_MAX")>>
     ELSE <<>>)

RECURSIVE AdminCategoryChecks(_, _)
AdminCategoryChecks(categories, selected) ==
    IF categories = <<>> THEN <<>>
    ELSE AdminCategoryErrors(Head(categories),
                             AdminCategoryTotal(Head(categories), selected))
         \o AdminCategoryChecks(Tail(categories), selected)

\* const key = item.variantId || item.productId
DuplicateKey(item) ==
    IF TruthyStr(item.variantId) THEN item.variantId ELSE item.productId

\* the keys of the Map variantCounts, in insertion order
RECURSIVE VariantCountKeys(_, _)
VariantCountKeys(selected, seen) ==
    IF selected = <<>> THEN <<>>
    ELSE LET key == DuplicateKey(Head(selected))
         IN  IF key \in seen THEN VariantCountKeys(Tail(selected), seen)
             ELSE <<key>> \o VariantCountKeys(Tail(selected), seen \cup {key})

\* mutation of VariantCount: the entries are counted, not their quantities
VariantCount_entries(selected, key) ==
    Len(SelectSeq(selected, LAMBDA item : DuplicateKey(item) = key))

\* variantCounts.get(key) after the first loop
VariantCount(selected, key) ==
    SumQuantity(SelectSeq(selected, LAMBDA item : DuplicateKey(item) = key))

RECURSIVE NoDuplicatesErrors(_, _)
NoDuplicatesErrors(keys, selected) ==
    IF keys = <<>> THEN <<>>
    ELSE (IF VariantCount(selected, Head(keys)) > 1
          THEN <<ValidationError("selectedItems",
                     <<"Duplicate selection not allowed: ", Head(keys)>>,
                     "NO_DUPLICATES")>>
          ELSE <<>>)
         \o NoDuplicatesErrors(Tail(keys), selected)

\* mutation of AdminDuplicateChecks: the check is made when duplicates are allowed
AdminDuplicateChecks_inverted(b, selected) ==
    IF b.allowDuplicates
    THEN NoDuplicatesErrors(VariantCountKeys(selected, {}), selected)
    ELSE <<>>

AdminDuplicateChecks(b, selected) ==
    IF ~b.allowDuplicates
    THEN NoDuplicatesErrors(VariantCountKeys(selected, {}), selected)
    ELSE <<>>

AdminMixMatchChecks(b, selected) ==
    AdminProductCountChecks(b, selected)
    \o AdminCategoryChecks(b.categories, selected)
    \o AdminDuplicateChecks(b, selected)

\* Math.min(...bundle.volumeRules.map((r) => r.minQuantity))
MinRuleQuantity(rules) ==
    CHOOSE m \in {rules[k].minQuantity : k \in DOMAIN rules} :
        \A k \in DOMAIN rules : m <= rules[k].minQuantity

\* bundle.volumeRules.find(...) finds a rule
HasQualifyingRule(rules, totalQty) ==
    \E k \in DOMAIN rules : RuleApplies(rules[k], totalQty)

AdminVolumeRuleErrors(b) ==
    IF Len(b.volumeRules) = 0
    THEN <<ValidationError("volumeRules", <<"No volume discount rules configured">>,
                           "NO_RULES")>>
    ELSE <<>>

AdminVolumeWarnings(b, selected, qty) ==
    LET totalQty == SumQuantity(selected) * qty
    IN  IF Len(b.volumeRules) # 0 /\ ~HasQualifyingRule(b.volumeRules, totalQty)
        THEN << <<"Current quantity (", ToString(totalQty),
                  ") does not qualify for any discount. Minimum ",
                  ToString(MinRuleQuantity(b.volumeRules)), " required.">> >>
        ELSE <<>>

\* mutation of SameProductCheck: the variants are compared
SameProductCheck_byVariant(b, selected) ==
    LET productIds == {selected[i].variantId : i \in DOMAIN selected}
    IN  IF b.applyToSameProduct /\ Cardinality(productIds) > 1
        THEN <<ValidationError("selectedItems",
                   <<"Volume discount applies only to the same product">>,
                   "SAME_PRODUCT_REQUIRED")>>
        ELSE <<>>

SameProductCheck(b, selected) ==
    LET productIds == {selected[i].productId : i \in DOMAIN selected}
    IN  IF b.applyToSameProduct /\ Cardinality(productIds) > 1
        THEN <<ValidationError("selectedItems",
                   <<"Volume discount applies only to the same product">>,
                   "SAME_PRODUCT_REQUIRED")>>
        ELSE <<>>

AdminVolumeChecks(b, selected) ==
    AdminVolumeRuleErrors(b) \o SameProductCheck(b, selected)

\* ------------------------------------------------------------------------
\* The characters of a string
\* ------------------------------------------------------------------------
\* A character is a UTF-16 code unit. A string here holds the code units
\* U+0001 to U+00FF and, of U+0100 to U+FFFF, the ones that end in a byte
\* from 80 to FF and are no surrogate; such a code unit is the string of
\* that one character. Every other code unit is written "U+" and its four
\* hexadecimal digits in upper case ("U+0000", "U+212A", "U+D83D"), and a
\* string that holds one is a sequence of characters.
\* U+0001 to U+00FF, in order; the apostrophe at the end pairs with the
\* grave accent
Latin1 ==
    "\t\n\f\r !\"#$%&'()*+,-./0123456789:;<=>?@ABCDEFGHIJKLMNOPQRSTUVWXYZ[\\]^_`abcdefghijklmnopqrstuvwxyz{|}~ ¡¢£¤¥¦§¨©ª«¬­®¯°±²³´µ¶·¸¹º»¼½¾¿ÀÁÂÃÄÅÆÇÈÉÊËÌÍÎÏÐÑÒÓÔÕÖ×ØÙÚÛÜÝÞßàáâãäåæçèéêëìíîïðñòóôõö÷øùúûüýþÿ'"

\* the upper half of each block of 256 from U+0100 on, the surrogates left
\* out: U+0180 to U+01FF, U+0280 to U+02FF, ..., U+FF80 to U+FFFF
HighCharacters ==
    <<"ƀƁƂƃƄƅƆƇƈƉƊƋƌƍƎƏƐƑƒƓƔƕƖƗƘƙƚƛƜƝƞƟƠơƢƣƤƥƦƧƨƩƪƫƬƭƮƯưƱƲƳƴƵƶƷƸƹƺƻƼƽƾƿǀǁǂǃǄǅǆǇǈǉǊǋǌǍǎǏǐǑǒǓǔǕǖǗǘǙǚǛǜǝǞǟǠǡǢǣǤǥǦǧǨǩǪǫǬǭǮǯǰǱǲǳǴǵǶǷǸǹǺǻǼǽǾǿ",
      "ʀʁʂʃʄʅʆʇʈʉʊʋʌʍʎʏʐʑʒʓʔʕʖʗʘʙʚʛʜʝʞʟʠʡʢʣʤʥʦʧʨʩʪʫʬʭʮʯʰʱʲʳʴʵʶʷʸʹʺʻʼʽʾʿˀˁ˂˃˄˅ˆˇˈˉˊˋˌˍˎˏːˑ˒˓˔˕˖˗˘˙˚˛˜˝˞˟ˠˡˢˣˤ˥˦˧˨˩˪˫ˬ˭ˮ˯˰˱˲˳˴˵˶˷˸˹˺˻˼˽˾˿",
      "΀΁΂΃΄΅Ά·ΈΉΊ΋Ό΍ΎΏΐΑΒΓΔΕΖΗΘΙΚΛΜΝΞΟΠΡ΢ΣΤΥΦΧΨΩΪΫάέήίΰαβγδεζηθικλμνξοπρςστυφχψωϊϋόύώϏϐϑϒϓϔϕϖϗϘϙϚϛϜϝϞϟϠϡϢϣϤϥϦϧϨϩϪϫϬϭϮϯϰϱϲϳϴϵ϶ϷϸϹϺϻϼϽϾϿ",
      "Ҁҁ҂҃҄҅҆҇҈҉ҊҋҌҍҎҏҐґҒғҔҕҖҗҘҙҚқҜҝҞҟҠҡҢңҤҥҦҧҨҩҪҫҬҭҮүҰұҲҳҴҵҶҷҸҹҺһҼҽҾҿӀӁӂӃӄӅӆӇӈӉӊӋӌӍӎӏӐӑӒӓӔӕӖӗӘәӚӛӜӝӞӟӠӡӢӣӤӥӦӧӨөӪӫӬӭӮӯӰӱӲӳӴӵӶӷӸӹӺӻӼӽӾӿ",
      "րցւփքօֆևֈ։֊֋֌֍֎֏֐ְֱֲֳִֵֶַָֹֺֻּֽ֑֖֛֢֣֤֥֦֧֪֚֭֮֒֓֔֕֗֘֙֜֝֞֟֠֡֨֩֫֬֯־ֿ׀ׁׂ׃ׅׄ׆ׇ׈׉׊׋׌׍׎׏אבגדהוזחטיךכלםמןנסעףפץצקרשת׫׬׭׮ׯװױײ׳״׵׶׷׸׹׺׻׼׽׾׿",
      "ڀځڂڃڄڅچڇڈډڊڋڌڍڎڏڐڑڒړڔڕږڗژڙښڛڜڝڞڟڠڡڢڣڤڥڦڧڨکڪګڬڭڮگڰڱڲڳڴڵڶڷڸڹںڻڼڽھڿۀہۂۃۄۅۆۇۈۉۊۋیۍێۏېۑےۓ۔ەۖۗۘۙۚۛۜ۝۞ۣ۟۠ۡۢۤۥۦۧۨ۩۪ۭ۫۬ۮۯ۰۱۲۳۴۵۶۷۸۹ۺۻۼ۽۾ۿ",
      "ހށނރބޅކއވމފދތލގޏސޑޒޓޔޕޖޗޘޙޚޛޜޝޞޟޠޡޢޣޤޥަާިީުޫެޭޮޯްޱ޲޳޴޵޶޷޸޹޺޻޼޽޾޿߀߁߂߃߄߅߆߇߈߉ߊߋߌߍߎߏߐߑߒߓߔߕߖߗߘߙߚߛߜߝߞߟߠߡߢߣߤߥߦߧߨߩߪ߲߫߬߭߮߯߰߱߳ߴߵ߶߷߸߹ߺ߻߼߽߾߿",
      "ࢀࢁࢂࢃࢄࢅࢆࢇ࢈ࢉࢊࢋࢌࢍࢎ࢏࢐࢑࢒࢓࢔࢕࢖࢙࢚࢛ࢗ࢘࢜࢝࢞࢟ࢠࢡࢢࢣࢤࢥࢦࢧࢨࢩࢪࢫࢬࢭࢮࢯࢰࢱࢲࢳࢴࢵࢶࢷࢸࢹࢺࢻࢼࢽࢾࢿࣀࣁࣂࣃࣄࣅࣆࣇࣈࣉ࣏࣐࣑࣒࣓࣊࣋࣌࣍࣎ࣔࣕࣖࣗࣘࣙࣚࣛࣜࣝࣞࣟ࣠࣡࣢ࣰࣱࣲࣣࣦࣩ࣭࣮࣯ࣶࣹࣺࣤࣥࣧࣨ࣪࣫࣬ࣳࣴࣵࣷࣸࣻࣼࣽࣾࣿ",
      "ঀঁংঃ঄অআইঈউঊঋঌ঍঎এঐ঑঒ওঔকখগঘঙচছজঝঞটঠডঢণতথদধন঩পফবভমযর঱ল঳঴঵শষসহ঺঻়ঽািীুূৃৄ৅৆েৈ৉৊োৌ্ৎ৏৐৑৒৓৔৕৖ৗ৘৙৚৛ড়ঢ়৞য়ৠৡৢৣ৤৥০১২৩৪৫৬৭৮৯ৰৱ৲৳৴৵৶৷৸৹৺৻ৼ৽৾৿",
      "઀ઁંઃ઄અઆઇઈઉઊઋઌઍ઎એઐઑ઒ઓઔકખગઘઙચછજઝઞટઠડઢણતથદધન઩પફબભમયર઱લળ઴વશષસહ઺઻઼ઽાિીુૂૃૄૅ૆ેૈૉ૊ોૌ્૎૏ૐ૑૒૓૔૕૖૗૘૙૚૛૜૝૞૟ૠૡૢૣ૤૥૦૧૨૩૪૫૬૭૮૯૰૱૲૳૴૵૶૷૸ૹૺૻૼ૽૾૿",
      "஀஁ஂஃ஄அஆஇஈஉஊ஋஌஍எஏஐ஑ஒஓஔக஖஗஘ஙச஛ஜ஝ஞட஠஡஢ணத஥஦஧நனப஫஬஭மயரறலளழவஶஷஸஹ஺஻஼஽ாிீுூ௃௄௅ெேை௉ொோௌ்௎௏ௐ௑௒௓௔௕௖ௗ௘௙௚௛௜௝௞௟௠௡௢௣௤௥௦௧௨௩௪௫௬௭௮௯௰௱௲௳௴௵௶௷௸௹௺௻௼௽௾௿",
      "ಀಁಂಃ಄ಅಆಇಈಉಊಋಌ಍ಎಏಐ಑ಒಓಔಕಖಗಘಙಚಛಜಝಞಟಠಡಢಣತಥದಧನ಩ಪಫಬಭಮಯರಱಲಳ಴ವಶಷಸಹ಺಻಼ಽಾಿೀುೂೃೄ೅ೆೇೈ೉ೊೋೌ್೎೏೐೑೒೓೔ೕೖ೗೘೙೚೛೜ೝೞ೟ೠೡೢೣ೤೥೦೧೨೩೪೫೬೭೮೯೰ೱೲೳ೴೵೶೷೸೹೺೻೼೽೾೿",
      "඀ඁංඃ඄අආඇඈඉඊඋඌඍඎඏඐඑඒඓඔඕඖ඗඘඙කඛගඝඞඟචඡජඣඤඥඦටඨඩඪණඬතථදධන඲ඳපඵබභමඹයර඼ල඾඿වශෂසහළෆ෇෈෉්෋෌෍෎ාැෑිීු෕ූ෗ෘෙේෛොෝෞෟ෠෡෢෣෤෥෦෧෨෩෪෫෬෭෮෯෰෱ෲෳ෴෵෶෷෸෹෺෻෼෽෾෿",
      "຀ກຂ຃ຄ຅ຆງຈຉຊ຋ຌຍຎຏຐຑຒຓດຕຖທຘນບປຜຝພຟຠມຢຣ຤ລ຦ວຨຩສຫຬອຮຯະັາຳິີຶື຺ຸູົຼຽ຾຿ເແໂໃໄ໅ໆ໇່້໊໋໌ໍ໎໏໐໑໒໓໔໕໖໗໘໙໚໛ໜໝໞໟ໠໡໢໣໤໥໦໧໨໩໪໫໬໭໮໯໰໱໲໳໴໵໶໷໸໹໺໻໼໽໾໿",
      "྄ཱྀྀྂྃ྅྆྇ྈྉྊྋྌྍྎྏྐྑྒྒྷྔྕྖྗ྘ྙྚྛྜྜྷྞྟྠྡྡྷྣྤྥྦྦྷྨྩྪྫྫྷྭྮྯྰྱྲླྴྵྶྷྸྐྵྺྻྼ྽྾྿࿀࿁࿂࿃࿄࿅࿆࿇࿈࿉࿊࿋࿌࿍࿎࿏࿐࿑࿒࿓࿔࿕࿖࿗࿘࿙࿚࿛࿜࿝࿞࿟࿠࿡࿢࿣࿤࿥࿦࿧࿨࿩࿪࿫࿬࿭࿮࿯࿰࿱࿲࿳࿴࿵࿶࿷࿸࿹࿺࿻࿼࿽࿾࿿",
      "ႀႁႂႃႄႅႆႇႈႉႊႋႌႍႎႏ႐႑႒႓႔႕႖႗႘႙ႚႛႜႝ႞႟ႠႡႢႣႤႥႦႧႨႩႪႫႬႭႮႯႰႱႲႳႴႵႶႷႸႹႺႻႼႽႾႿჀჁჂჃჄჅ჆Ⴧ჈჉჊჋჌Ⴭ჎჏აბგდევზთიკლმნოპჟრსტუფქღყშჩცძწჭხჯჰჱჲჳჴჵჶჷჸჹჺ჻ჼჽჾჿ",
      "ᆀᆁᆂᆃᆄᆅᆆᆇᆈᆉᆊᆋᆌᆍᆎᆏᆐᆑᆒᆓᆔᆕᆖᆗᆘᆙᆚᆛᆜᆝᆞᆟᆠᆡᆢᆣᆤᆥᆦᆧᆨᆩᆪᆫᆬᆭᆮᆯᆰᆱᆲᆳᆴᆵᆶᆷᆸᆹᆺᆻᆼᆽᆾᆿᇀᇁᇂᇃᇄᇅᇆᇇᇈᇉᇊᇋᇌᇍᇎᇏᇐᇑᇒᇓᇔᇕᇖᇗᇘᇙᇚᇛᇜᇝᇞᇟᇠᇡᇢᇣᇤᇥᇦᇧᇨᇩᇪᇫᇬᇭᇮᇯᇰᇱᇲᇳᇴᇵᇶᇷᇸᇹᇺᇻᇼᇽᇾᇿ",
      "ኀኁኂኃኄኅኆኇኈ኉ኊኋኌኍ኎኏ነኑኒናኔንኖኗኘኙኚኛኜኝኞኟአኡኢኣኤእኦኧከኩኪካኬክኮኯኰ኱ኲኳኴኵ኶኷ኸኹኺኻኼኽኾ኿ዀ዁ዂዃዄዅ዆዇ወዉዊዋዌውዎዏዐዑዒዓዔዕዖ዗ዘዙዚዛዜዝዞዟዠዡዢዣዤዥዦዧየዩዪያዬይዮዯደዱዲዳዴድዶዷዸዹዺዻዼዽዾዿ",
      "ᎀᎁᎂᎃᎄᎅᎆᎇᎈᎉᎊᎋᎌᎍᎎᎏ᎐᎑᎒᎓᎔᎕᎖᎗᎘᎙᎚᎛᎜᎝᎞᎟ᎠᎡᎢᎣᎤᎥᎦᎧᎨᎩᎪᎫᎬᎭᎮᎯᎰᎱᎲᎳᎴᎵᎶᎷᎸᎹᎺᎻᎼᎽᎾᎿᏀᏁᏂᏃᏄᏅᏆᏇᏈᏉᏊᏋᏌᏍᏎᏏᏐᏑᏒᏓᏔᏕᏖᏗᏘᏙᏚᏛᏜᏝᏞᏟᏠᏡᏢᏣᏤᏥᏦᏧᏨᏩᏪᏫᏬᏭᏮᏯᏰᏱᏲᏳᏴᏵ᏶᏷ᏸᏹᏺᏻᏼᏽ᏾᏿",
      "ᒀᒁᒂᒃᒄᒅᒆᒇᒈᒉᒊᒋᒌᒍᒎᒏᒐᒑᒒᒓᒔᒕᒖᒗᒘᒙᒚᒛᒜᒝᒞᒟᒠᒡᒢᒣᒤᒥᒦᒧᒨᒩᒪᒫᒬᒭᒮᒯᒰᒱᒲᒳᒴᒵᒶᒷᒸᒹᒺᒻᒼᒽᒾᒿᓀᓁᓂᓃᓄᓅᓆᓇᓈᓉᓊᓋᓌᓍᓎᓏᓐᓑᓒᓓᓔᓕᓖᓗᓘᓙᓚᓛᓜᓝᓞᓟᓠᓡᓢᓣᓤᓥᓦᓧᓨᓩᓪᓫᓬᓭᓮᓯᓰᓱᓲᓳᓴᓵᓶᓷᓸᓹᓺᓻᓼᓽᓾᓿ",
      "ᖀᖁᖂᖃᖄᖅᖆᖇᖈᖉᖊᖋᖌᖍᖎᖏᖐᖑᖒᖓᖔᖕᖖᖗᖘᖙᖚᖛᖜᖝᖞᖟᖠᖡᖢᖣᖤᖥᖦᖧᖨᖩᖪᖫᖬᖭᖮᖯᖰᖱᖲᖳᖴᖵᖶᖷᖸᖹᖺᖻᖼᖽᖾᖿᗀᗁᗂᗃᗄᗅᗆᗇᗈᗉᗊᗋᗌᗍᗎᗏᗐᗑᗒᗓᗔᗕᗖᗗᗘᗙᗚᗛᗜᗝᗞᗟᗠᗡᗢᗣᗤᗥᗦᗧᗨᗩᗪᗫᗬᗭᗮᗯᗰᗱᗲᗳᗴᗵᗶᗷᗸᗹᗺᗻᗼᗽᗾᗿ",
      " ᚁᚂᚃᚄᚅᚆᚇᚈᚉᚊᚋᚌᚍᚎᚏᚐᚑᚒᚓᚔᚕᚖᚗᚘᚙᚚ᚛᚜᚝᚞᚟ᚠᚡᚢᚣᚤᚥᚦᚧᚨᚩᚪᚫᚬᚭᚮᚯᚰᚱᚲᚳᚴᚵᚶᚷᚸᚹᚺᚻᚼᚽᚾᚿᛀᛁᛂᛃᛄᛅᛆᛇᛈᛉᛊᛋᛌᛍᛎᛏᛐᛑᛒᛓᛔᛕᛖᛗᛘᛙᛚᛛᛜᛝᛞᛟᛠᛡᛢᛣᛤᛥᛦᛧᛨᛩᛪ᛫᛬᛭ᛮᛯᛰᛱᛲᛳᛴᛵᛶᛷᛸ᛹᛺᛻᛼᛽᛾᛿",
      "កខគឃងចឆជឈញដឋឌឍណតថទធនបផពភមយរលវឝឞសហឡអឣឤឥឦឧឨឩឪឫឬឭឮឯឰឱឲឳ឴឵ាិីឹឺុូួើឿៀេែៃោៅំះៈ៉៊់៌៍៎៏័៑្៓។៕៖ៗ៘៙៚៛ៜ៝៞៟០១២៣៤៥៦៧៨៩៪៫៬៭៮៯៰៱៲៳៴៵៶៷៸៹៺៻៼៽៾៿",
      "ᢀᢁᢂᢃᢄᢅᢆᢇᢈᢉᢊᢋᢌᢍᢎᢏᢐᢑᢒᢓᢔᢕᢖᢗᢘᢙᢚᢛᢜᢝᢞᢟᢠᢡᢢᢣᢤᢥᢦᢧᢨᢩᢪ᢫᢬᢭᢮᢯ᢰᢱᢲᢳᢴᢵᢶᢷᢸᢹᢺᢻᢼᢽᢾᢿᣀᣁᣂᣃᣄᣅᣆᣇᣈᣉᣊᣋᣌᣍᣎᣏᣐᣑᣒᣓᣔᣕᣖᣗᣘᣙᣚᣛᣜᣝᣞᣟᣠᣡᣢᣣᣤᣥᣦᣧᣨᣩᣪᣫᣬᣭᣮᣯᣰᣱᣲᣳᣴᣵ᣶᣷᣸᣹᣺᣻᣼᣽᣾᣿",
      "ᦀᦁᦂᦃᦄᦅᦆᦇᦈᦉᦊᦋᦌᦍᦎᦏᦐᦑᦒᦓᦔᦕᦖᦗᦘᦙᦚᦛᦜᦝᦞᦟᦠᦡᦢᦣᦤᦥᦦᦧᦨᦩᦪᦫ᦬᦭᦮᦯ᦰᦱᦲᦳᦴᦵᦶᦷᦸᦹᦺᦻᦼᦽᦾᦿᧀᧁᧂᧃᧄᧅᧆᧇᧈᧉ᧊᧋᧌᧍᧎᧏᧐᧑᧒᧓᧔᧕᧖᧗᧘᧙᧚᧛᧜᧝᧞᧟᧠᧡᧢᧣᧤᧥᧦᧧᧨᧩᧪᧫᧬᧭᧮᧯᧰᧱᧲᧳᧴᧵᧶᧷᧸᧹᧺᧻᧼᧽᧾᧿",
      "᪀᪁᪂᪃᪄᪅᪆᪇᪈᪉᪊᪋᪌᪍᪎᪏᪐᪑᪒᪓᪔᪕᪖᪗᪘᪙᪚᪛᪜᪝᪞᪟᪠᪡᪢᪣᪤᪥᪦ᪧ᪨᪩᪪᪫᪬᪭᪮᪯᪵᪶᪷᪸᪹᪺᪽᪰᪱᪲᪳᪴᪻᪼᪾ᪿᫀ᫃᫄᫊᫁᫂᫅᫆᫇᫈᫉᫋ᫌᫍᫎ᫏᫐᫑᫒᫓᫔᫕᫖᫗᫘᫙᫚᫛᫜᫝᫞᫟᫠᫡᫢᫣᫤᫥᫦᫧᫨᫩᫪᫫᫬᫭᫮᫯᫰᫱᫲᫳᫴᫵᫶᫷᫸᫹᫺᫻᫼᫽᫾᫿",
      "ᮀᮁᮂᮃᮄᮅᮆᮇᮈᮉᮊᮋᮌᮍᮎᮏᮐᮑᮒᮓᮔᮕᮖᮗᮘᮙᮚᮛᮜᮝᮞᮟᮠᮡᮢᮣᮤᮥᮦᮧᮨᮩ᮪᮫ᮬᮭᮮᮯ᮰᮱᮲᮳᮴᮵᮶᮷᮸᮹ᮺᮻᮼᮽᮾᮿᯀᯁᯂᯃᯄᯅᯆᯇᯈᯉᯊᯋᯌᯍᯎᯏᯐᯑᯒᯓᯔᯕᯖᯗᯘᯙᯚᯛᯜᯝᯞᯟᯠᯡᯢᯣᯤᯥ᯦ᯧᯨᯩᯪᯫᯬᯭᯮᯯᯰᯱ᯲᯳᯴᯵᯶᯷᯸᯹᯺᯻᯼᯽᯾᯿",
      "ᲀᲁᲂᲃᲄᲅᲆᲇᲈᲉᲊ᲋᲌᲍᲎᲏ᲐᲑᲒᲓᲔᲕᲖᲗᲘᲙᲚᲛᲜᲝᲞᲟᲠᲡᲢᲣᲤᲥᲦᲧᲨᲩᲪᲫᲬᲭᲮᲯᲰᲱᲲᲳᲴᲵᲶᲷᲸᲹᲺ᲻᲼ᲽᲾᲿ᳀᳁᳂᳃᳄᳅᳆᳇᳈᳉᳊᳋᳌᳍᳎᳏᳐᳑᳒᳓᳔᳕᳖᳗᳘᳙᳜᳝᳞᳟᳚᳛᳠᳡᳢᳣᳤᳥᳦᳧᳨ᳩᳪᳫᳬ᳭ᳮᳯᳰᳱᳲᳳ᳴ᳵᳶ᳷᳸᳹ᳺ᳻᳼᳽᳾᳿",
      "ᶀᶁᶂᶃᶄᶅᶆᶇᶈᶉᶊᶋᶌᶍᶎᶏᶐᶑᶒᶓᶔᶕᶖᶗᶘᶙᶚᶛᶜᶝᶞᶟᶠᶡᶢᶣᶤᶥᶦᶧᶨᶩᶪᶫᶬᶭᶮᶯᶰᶱᶲᶳᶴᶵᶶᶷᶸᶹᶺᶻᶼᶽᶾᶿ᷐᷎᷺᷂᷊᷏᷹᷽᷿᷷᷸᷀᷁᷃᷄᷅᷆᷇᷈᷉᷋᷌᷑᷒ᷓᷔᷕᷖᷗᷘᷙᷚᷛᷜᷝᷞᷟᷠᷡᷢᷣᷤᷥᷦᷧᷨᷩᷪᷫᷬᷭᷮᷯᷰᷱᷲᷳᷴ᷵᷻᷾᷶᷼᷍",
      "ẀẁẂẃẄẅẆẇẈẉẊẋẌẍẎẏẐẑẒẓẔẕẖẗẘẙẚẛẜẝẞẟẠạẢảẤấẦầẨẩẪẫẬậẮắẰằẲẳẴẵẶặẸẹẺẻẼẽẾếỀềỂểỄễỆệỈỉỊịỌọỎỏỐốỒồỔổỖỗỘộỚớỜờỞởỠỡỢợỤụỦủỨứỪừỬửỮữỰựỲỳỴỵỶỷỸỹỺỻỼỽỾỿ",
      "ᾀᾁᾂᾃᾄᾅᾆᾇᾈᾉᾊᾋᾌᾍᾎᾏᾐᾑᾒᾓᾔᾕᾖᾗᾘᾙᾚᾛᾜᾝᾞᾟᾠᾡᾢᾣᾤᾥᾦᾧᾨᾩᾪᾫᾬᾭᾮᾯᾰᾱᾲᾳᾴ᾵ᾶᾷᾸᾹᾺΆᾼ᾽ι᾿῀῁ῂῃῄ῅ῆῇῈΈῊΉῌ῍῎῏ῐῑῒΐ῔῕ῖῗῘῙῚΊ῜῝῞῟ῠῡῢΰῤῥῦῧῨῩῪΎῬ῭΅`῰῱ῲῳῴ῵ῶῷῸΌῺΏῼ´῾῿",
      "₀₁₂₃₄₅₆₇₈₉₊₋₌₍₎₏ₐₑₒₓₔₕₖₗₘₙₚₛₜ₝₞₟₠₡₢₣₤₥₦₧₨₩₪₫€₭₮₯₰₱₲₳₴₵₶₷₸₹₺₻₼₽₾₿⃀⃁⃂⃃⃄⃅⃆⃇⃈⃉⃊⃋⃌⃍⃎⃏⃒⃓⃘⃙⃚⃐⃑⃔⃕⃖⃗⃛⃜⃝⃞⃟⃠⃡⃢⃣⃤⃥⃦⃪⃫⃨⃬⃭⃮⃯⃧⃩⃰⃱⃲⃳⃴⃵⃶⃷⃸⃹⃺⃻⃼⃽⃾⃿",
      "ↀↁↂↃↄↅↆↇↈ↉↊↋↌↍↎↏←↑→↓↔↕↖↗↘↙↚↛↜↝↞↟↠↡↢↣↤↥↦↧↨↩↪↫↬↭↮↯↰↱↲↳↴↵↶↷↸↹↺↻↼↽↾↿⇀⇁⇂⇃⇄⇅⇆⇇⇈⇉⇊⇋⇌⇍⇎⇏⇐⇑⇒⇓⇔⇕⇖⇗⇘⇙⇚⇛⇜⇝⇞⇟⇠⇡⇢⇣⇤⇥⇦⇧⇨⇩⇪⇫⇬⇭⇮⇯⇰⇱⇲⇳⇴⇵⇶⇷⇸⇹⇺⇻⇼⇽⇾⇿",
      "⊀⊁⊂⊃⊄⊅⊆⊇⊈⊉⊊⊋⊌⊍⊎⊏⊐⊑⊒⊓⊔⊕⊖⊗⊘⊙⊚⊛⊜⊝⊞⊟⊠⊡⊢⊣⊤⊥⊦⊧⊨⊩⊪⊫⊬⊭⊮⊯⊰⊱⊲⊳⊴⊵⊶⊷⊸⊹⊺⊻⊼⊽⊾⊿⋀⋁⋂⋃⋄⋅⋆⋇⋈⋉⋊⋋⋌⋍⋎⋏⋐⋑⋒⋓⋔⋕⋖⋗⋘⋙⋚⋛⋜⋝⋞⋟⋠⋡⋢⋣⋤⋥⋦⋧⋨⋩⋪⋫⋬⋭⋮⋯⋰⋱⋲⋳⋴⋵⋶⋷⋸⋹⋺⋻⋼⋽⋾⋿",
      "⎀⎁⎂⎃⎄⎅⎆⎇⎈⎉⎊⎋⎌⎍⎎⎏⎐⎑⎒⎓⎔⎕⎖⎗⎘⎙⎚⎛⎜⎝⎞⎟⎠⎡⎢⎣⎤⎥⎦⎧⎨⎩⎪⎫⎬⎭⎮⎯⎰⎱⎲⎳⎴⎵⎶⎷⎸⎹⎺⎻⎼⎽⎾⎿⏀⏁⏂⏃⏄⏅⏆⏇⏈⏉⏊⏋⏌⏍⏎⏏⏐⏑⏒⏓⏔⏕⏖⏗⏘⏙⏚⏛⏜⏝⏞⏟⏠⏡⏢⏣⏤⏥⏦⏧⏨⏩⏪⏫⏬⏭⏮⏯⏰⏱⏲⏳⏴⏵⏶⏷⏸⏹⏺⏻⏼⏽⏾⏿",
      "⒀⒁⒂⒃⒄⒅⒆⒇⒈⒉⒊⒋⒌⒍⒎⒏⒐⒑⒒⒓⒔⒕⒖⒗⒘⒙⒚⒛⒜⒝⒞⒟⒠⒡⒢⒣⒤⒥⒦⒧⒨⒩⒪⒫⒬⒭⒮⒯⒰⒱⒲⒳⒴⒵ⒶⒷⒸⒹⒺⒻⒼⒽⒾⒿⓀⓁⓂⓃⓄⓅⓆⓇⓈⓉⓊⓋⓌⓍⓎⓏⓐⓑⓒⓓⓔⓕⓖⓗⓘⓙⓚⓛⓜⓝⓞⓟⓠⓡⓢⓣⓤⓥⓦⓧⓨⓩ⓪⓫⓬⓭⓮⓯⓰⓱⓲⓳⓴⓵⓶⓷⓸⓹⓺⓻⓼⓽⓾⓿",
      "▀▁▂▃▄▅▆▇█▉▊▋▌▍▎▏▐░▒▓▔▕▖▗▘▙▚▛▜▝▞▟■□▢▣▤▥▦▧▨▩▪▫▬▭▮▯▰▱▲△▴▵▶▷▸▹►▻▼▽▾▿◀◁◂◃◄◅◆◇◈◉◊○◌◍◎●◐◑◒◓◔◕◖◗◘◙◚◛◜◝◞◟◠◡◢◣◤◥◦◧◨◩◪◫◬◭◮◯◰◱◲◳◴◵◶◷◸◹◺◻◼◽◾◿",
      "⚀⚁⚂⚃⚄⚅⚆⚇⚈⚉⚊⚋⚌⚍⚎⚏⚐⚑⚒⚓⚔⚕⚖⚗⚘⚙⚚⚛⚜⚝⚞⚟⚠⚡⚢⚣⚤⚥⚦⚧⚨⚩⚪⚫⚬⚭⚮⚯⚰⚱⚲⚳⚴⚵⚶⚷⚸⚹⚺⚻⚼⚽⚾⚿⛀⛁⛂⛃⛄⛅⛆⛇⛈⛉⛊⛋⛌⛍⛎⛏⛐⛑⛒⛓⛔⛕⛖⛗⛘⛙⛚⛛⛜⛝⛞⛟⛠⛡⛢⛣⛤⛥⛦⛧⛨⛩⛪⛫⛬⛭⛮⛯⛰⛱⛲⛳⛴⛵⛶⛷⛸⛹⛺⛻⛼⛽⛾⛿",
      "➀➁➂➃➄➅➆➇➈➉➊➋➌➍➎➏➐➑➒➓➔➕➖➗➘➙➚➛➜➝➞➟➠➡➢➣➤➥➦➧➨➩➪➫➬➭➮➯➰➱➲➳➴➵➶➷➸➹➺➻➼➽➾➿⟀⟁⟂⟃⟄⟅⟆⟇⟈⟉⟊⟋⟌⟍⟎⟏⟐⟑⟒⟓⟔⟕⟖⟗⟘⟙⟚⟛⟜⟝⟞⟟⟠⟡⟢⟣⟤⟥⟦⟧⟨⟩⟪⟫⟬⟭⟮⟯⟰⟱⟲⟳⟴⟵⟶⟷⟸⟹⟺⟻⟼⟽⟾⟿",
      "⢀⢁⢂⢃⢄⢅⢆⢇⢈⢉⢊⢋⢌⢍⢎⢏⢐⢑⢒⢓⢔⢕⢖⢗⢘⢙⢚⢛⢜⢝⢞⢟⢠⢡⢢⢣⢤⢥⢦⢧⢨⢩⢪⢫⢬⢭⢮⢯⢰⢱⢲⢳⢴⢵⢶⢷⢸⢹⢺⢻⢼⢽⢾⢿⣀⣁⣂⣃⣄⣅⣆⣇⣈⣉⣊⣋⣌⣍⣎⣏⣐⣑⣒⣓⣔⣕⣖⣗⣘⣙⣚⣛⣜⣝⣞⣟⣠⣡⣢⣣⣤⣥⣦⣧⣨⣩⣪⣫⣬⣭⣮⣯⣰⣱⣲⣳⣴⣵⣶⣷⣸⣹⣺⣻⣼⣽⣾⣿",
      "⦀⦁⦂⦃⦄⦅⦆⦇⦈⦉⦊⦋⦌⦍⦎⦏⦐⦑⦒⦓⦔⦕⦖⦗⦘⦙⦚⦛⦜⦝⦞⦟⦠⦡⦢⦣⦤⦥⦦⦧⦨⦩⦪⦫⦬⦭⦮⦯⦰⦱⦲⦳⦴⦵⦶⦷⦸⦹⦺⦻⦼⦽⦾⦿⧀⧁⧂⧃⧄⧅⧆⧇⧈⧉⧊⧋⧌⧍⧎⧏⧐⧑⧒⧓⧔⧕⧖⧗⧘⧙⧚⧛⧜⧝⧞⧟⧠⧡⧢⧣⧤⧥⧦⧧⧨⧩⧪⧫⧬⧭⧮⧯⧰⧱⧲⧳⧴⧵⧶⧷⧸⧹⧺⧻⧼⧽⧾⧿",
      "⪀⪁⪂⪃⪄⪅⪆⪇⪈⪉⪊⪋⪌⪍⪎⪏⪐⪑⪒⪓⪔⪕⪖⪗⪘⪙⪚⪛⪜⪝⪞⪟⪠⪡⪢⪣⪤⪥⪦⪧⪨⪩⪪⪫⪬⪭⪮⪯⪰⪱⪲⪳⪴⪵⪶⪷⪸⪹⪺⪻⪼⪽⪾⪿⫀⫁⫂⫃⫄⫅⫆⫇⫈⫉⫊⫋⫌⫍⫎⫏⫐⫑⫒⫓⫔⫕⫖⫗⫘⫙⫚⫛⫝̸⫝⫞⫟⫠⫡⫢⫣⫤⫥⫦⫧⫨⫩⫪⫫⫬⫭⫮⫯⫰⫱⫲⫳⫴⫵⫶⫷⫸⫹⫺⫻⫼⫽⫾⫿",
      "⮀⮁⮂⮃⮄⮅⮆⮇⮈⮉⮊⮋⮌⮍⮎⮏⮐⮑⮒⮓⮔⮕⮖⮗⮘⮙⮚⮛⮜⮝⮞⮟⮠⮡⮢⮣⮤⮥⮦⮧⮨⮩⮪⮫⮬⮭⮮⮯⮰⮱⮲⮳⮴⮵⮶⮷⮸⮹⮺⮻⮼⮽⮾⮿⯀⯁⯂⯃⯄⯅⯆⯇⯈⯉⯊⯋⯌⯍⯎⯏⯐⯑⯒⯓⯔⯕⯖⯗⯘⯙⯚⯛⯜⯝⯞⯟⯠⯡⯢⯣⯤⯥⯦⯧⯨⯩⯪⯫⯬⯭⯮⯯⯰⯱⯲⯳⯴⯵⯶⯷⯸⯹⯺⯻⯼⯽⯾⯿",
      "ⲀⲁⲂⲃⲄⲅⲆⲇⲈⲉⲊⲋⲌⲍⲎⲏⲐⲑⲒⲓⲔⲕⲖⲗⲘⲙⲚⲛⲜⲝⲞⲟⲠⲡⲢⲣⲤⲥⲦⲧⲨⲩⲪⲫⲬⲭⲮⲯⲰⲱⲲⲳⲴⲵⲶⲷⲸⲹⲺⲻⲼⲽⲾⲿⳀⳁⳂⳃⳄⳅⳆⳇⳈⳉⳊⳋⳌⳍⳎⳏⳐⳑⳒⳓⳔⳕⳖⳗⳘⳙⳚⳛⳜⳝⳞⳟⳠⳡⳢⳣⳤ⳥⳦⳧⳨⳩⳪ⳫⳬⳭⳮ⳯⳰⳱Ⳳⳳ⳴⳵⳶⳷⳸⳹⳺⳻⳼⳽⳾⳿",
      "ⶀⶁⶂⶃⶄⶅⶆⶇⶈⶉⶊⶋⶌⶍⶎⶏⶐⶑⶒⶓⶔⶕⶖ⶗⶘⶙⶚⶛⶜⶝⶞⶟ⶠⶡⶢⶣⶤⶥⶦ⶧ⶨⶩⶪⶫⶬⶭⶮ⶯ⶰⶱⶲⶳⶴⶵⶶ⶷ⶸⶹⶺⶻⶼⶽⶾ⶿ⷀⷁⷂⷃⷄⷅⷆ⷇ⷈⷉⷊⷋⷌⷍⷎ⷏ⷐⷑⷒⷓⷔⷕⷖ⷗ⷘⷙⷚⷛⷜⷝⷞ⷟ⷠⷡⷢⷣⷤⷥⷦⷧⷨⷩⷪⷫⷬⷭⷮⷯⷰⷱⷲⷳⷴⷵⷶⷷⷸⷹⷺⷻⷼⷽⷾⷿ",
      "⺀⺁⺂⺃⺄⺅⺆⺇⺈⺉⺊⺋⺌⺍⺎⺏⺐⺑⺒⺓⺔⺕⺖⺗⺘⺙⺚⺛⺜⺝⺞⺟⺠⺡⺢⺣⺤⺥⺦⺧⺨⺩⺪⺫⺬⺭⺮⺯⺰⺱⺲⺳⺴⺵⺶⺷⺸⺹⺺⺻⺼⺽⺾⺿⻀⻁⻂⻃⻄⻅⻆⻇⻈⻉⻊⻋⻌⻍⻎⻏⻐⻑⻒⻓⻔⻕⻖⻗⻘⻙⻚⻛⻜⻝⻞⻟⻠⻡⻢⻣⻤⻥⻦⻧⻨⻩⻪⻫⻬⻭⻮⻯⻰⻱⻲⻳⻴⻵⻶⻷⻸⻹⻺⻻⻼⻽⻾⻿",
      "⾀⾁⾂⾃⾄⾅⾆⾇⾈⾉⾊⾋⾌⾍⾎⾏⾐⾑⾒⾓⾔⾕⾖⾗⾘⾙⾚⾛⾜⾝⾞⾟⾠⾡⾢⾣⾤⾥⾦⾧⾨⾩⾪⾫⾬⾭⾮⾯⾰⾱⾲⾳⾴⾵⾶⾷⾸⾹⾺⾻⾼⾽⾾⾿⿀⿁⿂⿃⿄⿅⿆⿇⿈⿉⿊⿋⿌⿍⿎⿏⿐⿑⿒⿓⿔⿕⿖⿗⿘⿙⿚⿛⿜⿝⿞⿟⿠⿡⿢⿣⿤⿥⿦⿧⿨⿩⿪⿫⿬⿭⿮⿯⿰⿱⿲⿳⿴⿵⿶⿷⿸⿹⿺⿻⿼⿽⿾⿿",
      "むめもゃやゅゆょよらりるれろゎわゐゑをんゔゕゖ゗゘゙゚゛゜ゝゞゟ゠ァアィイゥウェエォオカガキギクグケゲコゴサザシジスズセゼソゾタダチヂッツヅテデトドナニヌネノハバパヒビピフブプヘベペホボポマミムメモャヤュユョヨラリルレロヮワヰヱヲンヴヵヶヷヸヹヺ・ーヽヾヿ",
      "ㆀㆁㆂㆃㆄㆅㆆㆇㆈㆉㆊㆋㆌㆍㆎ㆏㆐㆑㆒㆓㆔㆕㆖㆗㆘㆙㆚㆛㆜㆝㆞㆟ㆠㆡㆢㆣㆤㆥㆦㆧㆨㆩㆪㆫㆬㆭㆮㆯㆰㆱㆲㆳㆴㆵㆶㆷㆸㆹㆺㆻㆼㆽㆾㆿ㇀㇁㇂㇃㇄㇅㇆㇇㇈㇉㇊㇋㇌㇍㇎㇏㇐㇑㇒㇓㇔㇕㇖㇗㇘㇙㇚㇛㇜㇝㇞㇟㇠㇡㇢㇣㇤㇥㇦㇧㇨㇩㇪㇫㇬㇭㇮㇯ㇰㇱㇲㇳㇴㇵㇶㇷㇸㇹㇺㇻㇼㇽㇾㇿ",
      "㊀㊁㊂㊃㊄㊅㊆㊇㊈㊉㊊㊋㊌㊍㊎㊏㊐㊑㊒㊓㊔㊕㊖㊗㊘㊙㊚㊛㊜㊝㊞㊟㊠㊡㊢㊣㊤㊥㊦㊧㊨㊩㊪㊫㊬㊭㊮㊯㊰㊱㊲㊳㊴㊵㊶㊷㊸㊹㊺㊻㊼㊽㊾㊿㋀㋁㋂㋃㋄㋅㋆㋇㋈㋉㋊㋋㋌㋍㋎㋏㋐㋑㋒㋓㋔㋕㋖㋗㋘㋙㋚㋛㋜㋝㋞㋟㋠㋡㋢㋣㋤㋥㋦㋧㋨㋩㋪㋫㋬㋭㋮㋯㋰㋱㋲㋳㋴㋵㋶㋷㋸㋹㋺㋻㋼㋽㋾㋿",
      "㎀㎁㎂㎃㎄㎅㎆㎇㎈㎉㎊㎋㎌㎍㎎㎏㎐㎑㎒㎓㎔㎕㎖㎗㎘㎙㎚㎛㎜㎝㎞㎟㎠㎡㎢㎣㎤㎥㎦㎧㎨㎩㎪㎫㎬㎭㎮㎯㎰㎱㎲㎳㎴㎵㎶㎷㎸㎹㎺㎻㎼㎽㎾㎿㏀㏁㏂㏃㏄㏅㏆㏇㏈㏉㏊㏋㏌㏍㏎㏏㏐㏑㏒㏓㏔㏕㏖㏗㏘㏙㏚㏛㏜㏝㏞㏟㏠㏡㏢㏣㏤㏥㏦㏧㏨㏩㏪㏫㏬㏭㏮㏯㏰㏱㏲㏳㏴㏵㏶㏷㏸㏹㏺㏻㏼㏽㏾㏿",
      "㒀㒁㒂㒃㒄㒅㒆㒇㒈㒉㒊㒋㒌㒍㒎㒏㒐㒑㒒㒓㒔㒕㒖㒗㒘㒙㒚㒛㒜㒝㒞㒟㒠㒡㒢㒣㒤㒥㒦㒧㒨㒩㒪㒫㒬㒭㒮㒯㒰㒱㒲㒳㒴㒵㒶㒷㒸㒹㒺㒻㒼㒽㒾㒿㓀㓁㓂㓃㓄㓅㓆㓇㓈㓉㓊㓋㓌㓍㓎㓏㓐㓑㓒㓓㓔㓕㓖㓗㓘㓙㓚㓛㓜㓝㓞㓟㓠㓡㓢㓣㓤㓥㓦㓧㓨㓩㓪㓫㓬㓭㓮㓯㓰㓱㓲㓳㓴㓵㓶㓷㓸㓹㓺㓻㓼㓽㓾㓿",
      "㖀㖁㖂㖃㖄㖅㖆㖇㖈㖉㖊㖋㖌㖍㖎㖏㖐㖑㖒㖓㖔㖕㖖㖗㖘㖙㖚㖛㖜㖝㖞㖟㖠㖡㖢㖣㖤㖥㖦㖧㖨㖩㖪㖫㖬㖭㖮㖯㖰㖱㖲㖳㖴㖵㖶㖷㖸㖹㖺㖻㖼㖽㖾㖿㗀㗁㗂㗃㗄㗅㗆㗇㗈㗉㗊㗋㗌㗍㗎㗏㗐㗑㗒㗓㗔㗕㗖㗗㗘㗙㗚㗛㗜㗝㗞㗟㗠㗡㗢㗣㗤㗥㗦㗧㗨㗩㗪㗫㗬㗭㗮㗯㗰㗱㗲㗳㗴㗵㗶㗷㗸㗹㗺㗻㗼㗽㗾㗿",
      "㚀㚁㚂㚃㚄㚅㚆㚇㚈㚉㚊㚋㚌㚍㚎㚏㚐㚑㚒㚓㚔㚕㚖㚗㚘㚙㚚㚛㚜㚝㚞㚟㚠㚡㚢㚣㚤㚥㚦㚧㚨㚩㚪㚫㚬㚭㚮㚯㚰㚱㚲㚳㚴㚵㚶㚷㚸㚹㚺㚻㚼㚽㚾㚿㛀㛁㛂㛃㛄㛅㛆㛇㛈㛉㛊㛋㛌㛍㛎㛏㛐㛑㛒㛓㛔㛕㛖㛗㛘㛙㛚㛛㛜㛝㛞㛟㛠㛡㛢㛣㛤㛥㛦㛧㛨㛩㛪㛫㛬㛭㛮㛯㛰㛱㛲㛳㛴㛵㛶㛷㛸㛹㛺㛻㛼㛽㛾㛿",
      "㞀㞁㞂㞃㞄㞅㞆㞇㞈㞉㞊㞋㞌㞍㞎㞏㞐㞑㞒㞓㞔㞕㞖㞗㞘㞙㞚㞛㞜㞝㞞㞟㞠㞡㞢㞣㞤㞥㞦㞧㞨㞩㞪㞫㞬㞭㞮㞯㞰㞱㞲㞳㞴㞵㞶㞷㞸㞹㞺㞻㞼㞽㞾㞿㟀㟁㟂㟃㟄㟅㟆㟇㟈㟉㟊㟋㟌㟍㟎㟏㟐㟑㟒㟓㟔㟕㟖㟗㟘㟙㟚㟛㟜㟝㟞㟟㟠㟡㟢㟣㟤㟥㟦㟧㟨㟩㟪㟫㟬㟭㟮㟯㟰㟱㟲㟳㟴㟵㟶㟷㟸㟹㟺㟻㟼㟽㟾㟿",
      "㢀㢁㢂㢃㢄㢅㢆㢇㢈㢉㢊㢋㢌㢍㢎㢏㢐㢑㢒㢓㢔㢕㢖㢗㢘㢙㢚㢛㢜㢝㢞㢟㢠㢡㢢㢣㢤㢥㢦㢧㢨㢩㢪㢫㢬㢭㢮㢯㢰㢱㢲㢳㢴㢵㢶㢷㢸㢹㢺㢻㢼㢽㢾㢿㣀㣁㣂㣃㣄㣅㣆㣇㣈㣉㣊㣋㣌㣍㣎㣏㣐㣑㣒㣓㣔㣕㣖㣗㣘㣙㣚㣛㣜㣝㣞㣟㣠㣡㣢㣣㣤㣥㣦㣧㣨㣩㣪㣫㣬㣭㣮㣯㣰㣱㣲㣳㣴㣵㣶㣷㣸㣹㣺㣻㣼㣽㣾㣿",
      "㦀㦁㦂㦃㦄㦅㦆㦇㦈㦉㦊㦋㦌㦍㦎㦏㦐㦑㦒㦓㦔㦕㦖㦗㦘㦙㦚㦛㦜㦝㦞㦟㦠㦡㦢㦣㦤㦥㦦㦧㦨㦩㦪㦫㦬㦭㦮㦯㦰㦱㦲㦳㦴㦵㦶㦷㦸㦹㦺㦻㦼㦽㦾㦿㧀㧁㧂㧃㧄㧅㧆㧇㧈㧉㧊㧋㧌㧍㧎㧏㧐㧑㧒㧓㧔㧕㧖㧗㧘㧙㧚㧛㧜㧝㧞㧟㧠㧡㧢㧣㧤㧥㧦㧧㧨㧩㧪㧫㧬㧭㧮㧯㧰㧱㧲㧳㧴㧵㧶㧷㧸㧹㧺㧻㧼㧽㧾㧿",
      "㪀㪁㪂㪃㪄㪅㪆㪇㪈㪉㪊㪋㪌㪍㪎㪏㪐㪑㪒㪓㪔㪕㪖㪗㪘㪙㪚㪛㪜㪝㪞㪟㪠㪡㪢㪣㪤㪥㪦㪧㪨㪩㪪㪫㪬㪭㪮㪯㪰㪱㪲㪳㪴㪵㪶㪷㪸㪹㪺㪻㪼㪽㪾㪿㫀㫁㫂㫃㫄㫅㫆㫇㫈㫉㫊㫋㫌㫍㫎㫏㫐㫑㫒㫓㫔㫕㫖㫗㫘㫙㫚㫛㫜㫝㫞㫟㫠㫡㫢㫣㫤㫥㫦㫧㫨㫩㫪㫫㫬㫭㫮㫯㫰㫱㫲㫳㫴㫵㫶㫷㫸㫹㫺㫻㫼㫽㫾㫿",
      "㮀㮁㮂㮃㮄㮅㮆㮇㮈㮉㮊㮋㮌㮍㮎㮏㮐㮑㮒㮓㮔㮕㮖㮗㮘㮙㮚㮛㮜㮝㮞㮟㮠㮡㮢㮣㮤㮥㮦㮧㮨㮩㮪㮫㮬㮭㮮㮯㮰㮱㮲㮳㮴㮵㮶㮷㮸㮹㮺㮻㮼㮽㮾㮿㯀㯁㯂㯃㯄㯅㯆㯇㯈㯉㯊㯋㯌㯍㯎㯏㯐㯑㯒㯓㯔㯕㯖㯗㯘㯙㯚㯛㯜㯝㯞㯟㯠㯡㯢㯣㯤㯥㯦㯧㯨㯩㯪㯫㯬㯭㯮㯯㯰㯱㯲㯳㯴㯵㯶㯷㯸㯹㯺㯻㯼㯽㯾㯿",
      "㲀㲁㲂㲃㲄㲅㲆㲇㲈㲉㲊㲋㲌㲍㲎㲏㲐㲑㲒㲓㲔㲕㲖㲗㲘㲙㲚㲛㲜㲝㲞㲟㲠㲡㲢㲣㲤㲥㲦㲧㲨㲩㲪㲫㲬㲭㲮㲯㲰㲱㲲㲳㲴㲵㲶㲷㲸㲹㲺㲻㲼㲽㲾㲿㳀㳁㳂㳃㳄㳅㳆㳇㳈㳉㳊㳋㳌㳍㳎㳏㳐㳑㳒㳓㳔㳕㳖㳗㳘㳙㳚㳛㳜㳝㳞㳟㳠㳡㳢㳣㳤㳥㳦㳧㳨㳩㳪㳫㳬㳭㳮㳯㳰㳱㳲㳳㳴㳵㳶㳷㳸㳹㳺㳻㳼㳽㳾㳿",
      "㶀㶁㶂㶃㶄㶅㶆㶇㶈㶉㶊㶋㶌㶍㶎㶏㶐㶑㶒㶓㶔㶕㶖㶗㶘㶙㶚㶛㶜㶝㶞㶟㶠㶡㶢㶣㶤㶥㶦㶧㶨㶩㶪㶫㶬㶭㶮㶯㶰㶱㶲㶳㶴㶵㶶㶷㶸㶹㶺㶻㶼㶽㶾㶿㷀㷁㷂㷃㷄㷅㷆㷇㷈㷉㷊㷋㷌㷍㷎㷏㷐㷑㷒㷓㷔㷕㷖㷗㷘㷙㷚㷛㷜㷝㷞㷟㷠㷡㷢㷣㷤㷥㷦㷧㷨㷩㷪㷫㷬㷭㷮㷯㷰㷱㷲㷳㷴㷵㷶㷷㷸㷹㷺㷻㷼㷽㷾㷿",
      "㺀㺁㺂㺃㺄㺅㺆㺇㺈㺉㺊㺋㺌㺍㺎㺏㺐㺑㺒㺓㺔㺕㺖㺗㺘㺙㺚㺛㺜㺝㺞㺟㺠㺡㺢㺣㺤㺥㺦㺧㺨㺩㺪㺫㺬㺭㺮㺯㺰㺱㺲㺳㺴㺵㺶㺷㺸㺹㺺㺻㺼㺽㺾㺿㻀㻁㻂㻃㻄㻅㻆㻇㻈㻉㻊㻋㻌㻍㻎㻏㻐㻑㻒㻓㻔㻕㻖㻗㻘㻙㻚㻛㻜㻝㻞㻟㻠㻡㻢㻣㻤㻥㻦㻧㻨㻩㻪㻫㻬㻭㻮㻯㻰㻱㻲㻳㻴㻵㻶㻷㻸㻹㻺㻻㻼㻽㻾㻿",
      "㾀㾁㾂㾃㾄㾅㾆㾇㾈㾉㾊㾋㾌㾍㾎㾏㾐㾑㾒㾓㾔㾕㾖㾗㾘㾙㾚㾛㾜㾝㾞㾟㾠㾡㾢㾣㾤㾥㾦㾧㾨㾩㾪㾫㾬㾭㾮㾯㾰㾱㾲㾳㾴㾵㾶㾷㾸㾹㾺㾻㾼㾽㾾㾿㿀㿁㿂㿃㿄㿅㿆㿇㿈㿉㿊㿋㿌㿍㿎㿏㿐㿑㿒㿓㿔㿕㿖㿗㿘㿙㿚㿛㿜㿝㿞㿟㿠㿡㿢㿣㿤㿥㿦㿧㿨㿩㿪㿫㿬㿭㿮㿯㿰㿱㿲㿳㿴㿵㿶㿷㿸㿹㿺㿻㿼㿽㿾㿿",
      "䂀䂁䂂䂃䂄䂅䂆䂇䂈䂉䂊䂋䂌䂍䂎䂏䂐䂑䂒䂓䂔䂕䂖䂗䂘䂙䂚䂛䂜䂝䂞䂟䂠䂡䂢䂣䂤䂥䂦䂧䂨䂩䂪䂫䂬䂭䂮䂯䂰䂱䂲䂳䂴䂵䂶䂷䂸䂹䂺䂻䂼䂽䂾䂿䃀䃁䃂䃃䃄䃅䃆䃇䃈䃉䃊䃋䃌䃍䃎䃏䃐䃑䃒䃓䃔䃕䃖䃗䃘䃙䃚䃛䃜䃝䃞䃟䃠䃡䃢䃣䃤䃥䃦䃧䃨䃩䃪䃫䃬䃭䃮䃯䃰䃱䃲䃳䃴䃵䃶䃷䃸䃹䃺䃻䃼䃽䃾䃿",
      "䆀䆁䆂䆃䆄䆅䆆䆇䆈䆉䆊䆋䆌䆍䆎䆏䆐䆑䆒䆓䆔䆕䆖䆗䆘䆙䆚䆛䆜䆝䆞䆟䆠䆡䆢䆣䆤䆥䆦䆧䆨䆩䆪䆫䆬䆭䆮䆯䆰䆱䆲䆳䆴䆵䆶䆷䆸䆹䆺䆻䆼䆽䆾䆿䇀䇁䇂䇃䇄䇅䇆䇇䇈䇉䇊䇋䇌䇍䇎䇏䇐䇑䇒䇓䇔䇕䇖䇗䇘䇙䇚䇛䇜䇝䇞䇟䇠䇡䇢䇣䇤䇥䇦䇧䇨䇩䇪䇫䇬䇭䇮䇯䇰䇱䇲䇳䇴䇵䇶䇷䇸䇹䇺䇻䇼䇽䇾䇿",
      "䊀䊁䊂䊃䊄䊅䊆䊇䊈䊉䊊䊋䊌䊍䊎䊏䊐䊑䊒䊓䊔䊕䊖䊗䊘䊙䊚䊛䊜䊝䊞䊟䊠䊡䊢䊣䊤䊥䊦䊧䊨䊩䊪䊫䊬䊭䊮䊯䊰䊱䊲䊳䊴䊵䊶䊷䊸䊹䊺䊻䊼䊽䊾䊿䋀䋁䋂䋃䋄䋅䋆䋇䋈䋉䋊䋋䋌䋍䋎䋏䋐䋑䋒䋓䋔䋕䋖䋗䋘䋙䋚䋛䋜䋝䋞䋟䋠䋡䋢䋣䋤䋥䋦䋧䋨䋩䋪䋫䋬䋭䋮䋯䋰䋱䋲䋳䋴䋵䋶䋷䋸䋹䋺䋻䋼䋽䋾䋿",
      "䎀䎁䎂䎃䎄䎅䎆䎇䎈䎉䎊䎋䎌䎍䎎䎏䎐䎑䎒䎓䎔䎕䎖䎗䎘䎙䎚䎛䎜䎝䎞䎟䎠䎡䎢䎣䎤䎥䎦䎧䎨䎩䎪䎫䎬䎭䎮䎯䎰䎱䎲䎳䎴䎵䎶䎷䎸䎹䎺䎻䎼䎽䎾䎿䏀䏁䏂䏃䏄䏅䏆䏇䏈䏉䏊䏋䏌䏍䏎䏏䏐䏑䏒䏓䏔䏕䏖䏗䏘䏙䏚䏛䏜䏝䏞䏟䏠䏡䏢䏣䏤䏥䏦䏧䏨䏩䏪䏫䏬䏭䏮䏯䏰䏱䏲䏳䏴䏵䏶䏷䏸䏹䏺䏻䏼䏽䏾䏿",
      "䒀䒁䒂䒃䒄䒅䒆䒇䒈䒉䒊䒋䒌䒍䒎䒏䒐䒑䒒䒓䒔䒕䒖䒗䒘䒙䒚䒛䒜䒝䒞䒟䒠䒡䒢䒣䒤䒥䒦䒧䒨䒩䒪䒫䒬䒭䒮䒯䒰䒱䒲䒳䒴䒵䒶䒷䒸䒹䒺䒻䒼䒽䒾䒿䓀䓁䓂䓃䓄䓅䓆䓇䓈䓉䓊䓋䓌䓍䓎䓏䓐䓑䓒䓓䓔䓕䓖䓗䓘䓙䓚䓛䓜䓝䓞䓟䓠䓡䓢䓣䓤䓥䓦䓧䓨䓩䓪䓫䓬䓭䓮䓯䓰䓱䓲䓳䓴䓵䓶䓷䓸䓹䓺䓻䓼䓽䓾䓿",
      "䖀䖁䖂䖃䖄䖅䖆䖇䖈䖉䖊䖋䖌䖍䖎䖏䖐䖑䖒䖓䖔䖕䖖䖗䖘䖙䖚䖛䖜䖝䖞䖟䖠䖡䖢䖣䖤䖥䖦䖧䖨䖩䖪䖫䖬䖭䖮䖯䖰䖱䖲䖳䖴䖵䖶䖷䖸䖹䖺䖻䖼䖽䖾䖿䗀䗁䗂䗃䗄䗅䗆䗇䗈䗉䗊䗋䗌䗍䗎䗏䗐䗑䗒䗓䗔䗕䗖䗗䗘䗙䗚䗛䗜䗝䗞䗟䗠䗡䗢䗣䗤䗥䗦䗧䗨䗩䗪䗫䗬䗭䗮䗯䗰䗱䗲䗳䗴䗵䗶䗷䗸䗹䗺䗻䗼䗽䗾䗿",
      "䚀䚁䚂䚃䚄䚅䚆䚇䚈䚉䚊䚋䚌䚍䚎䚏䚐䚑䚒䚓䚔䚕䚖䚗䚘䚙䚚䚛䚜䚝䚞䚟䚠䚡䚢䚣䚤䚥䚦䚧䚨䚩䚪䚫䚬䚭䚮䚯䚰䚱䚲䚳䚴䚵䚶䚷䚸䚹䚺䚻䚼䚽䚾䚿䛀䛁䛂䛃䛄䛅䛆䛇䛈䛉䛊䛋䛌䛍䛎䛏䛐䛑䛒䛓䛔䛕䛖䛗䛘䛙䛚䛛䛜䛝䛞䛟䛠䛡䛢䛣䛤䛥䛦䛧䛨䛩䛪䛫䛬䛭䛮䛯䛰䛱䛲䛳䛴䛵䛶䛷䛸䛹䛺䛻䛼䛽䛾䛿",
      "䞀䞁䞂䞃䞄䞅䞆䞇䞈䞉䞊䞋䞌䞍䞎䞏䞐䞑䞒䞓䞔䞕䞖䞗䞘䞙䞚䞛䞜䞝䞞䞟䞠䞡䞢䞣䞤䞥䞦䞧䞨䞩䞪䞫䞬䞭䞮䞯䞰䞱䞲䞳䞴䞵䞶䞷䞸䞹䞺䞻䞼䞽䞾䞿䟀䟁䟂䟃䟄䟅䟆䟇䟈䟉䟊䟋䟌䟍䟎䟏䟐䟑䟒䟓䟔䟕䟖䟗䟘䟙䟚䟛䟜䟝䟞䟟䟠䟡䟢䟣䟤䟥䟦䟧䟨䟩䟪䟫䟬䟭䟮䟯䟰䟱䟲䟳䟴䟵䟶䟷䟸䟹䟺䟻䟼䟽䟾䟿",
      "䢀䢁䢂䢃䢄䢅䢆䢇䢈䢉䢊䢋䢌䢍䢎䢏䢐䢑䢒䢓䢔䢕䢖䢗䢘䢙䢚䢛䢜䢝䢞䢟䢠䢡䢢䢣䢤䢥䢦䢧䢨䢩䢪䢫䢬䢭䢮䢯䢰䢱䢲䢳䢴䢵䢶䢷䢸䢹䢺䢻䢼䢽䢾䢿䣀䣁䣂䣃䣄䣅䣆䣇䣈䣉䣊䣋䣌䣍䣎䣏䣐䣑䣒䣓䣔䣕䣖䣗䣘䣙䣚䣛䣜䣝䣞䣟䣠䣡䣢䣣䣤䣥䣦䣧䣨䣩䣪䣫䣬䣭䣮䣯䣰䣱䣲䣳䣴䣵䣶䣷䣸䣹䣺䣻䣼䣽䣾䣿",
      "䦀䦁䦂䦃䦄䦅䦆䦇䦈䦉䦊䦋䦌䦍䦎䦏䦐䦑䦒䦓䦔䦕䦖䦗䦘䦙䦚䦛䦜䦝䦞䦟䦠䦡䦢䦣䦤䦥䦦䦧䦨䦩䦪䦫䦬䦭䦮䦯䦰䦱䦲䦳䦴䦵䦶䦷䦸䦹䦺䦻䦼䦽䦾䦿䧀䧁䧂䧃䧄䧅䧆䧇䧈䧉䧊䧋䧌䧍䧎䧏䧐䧑䧒䧓䧔䧕䧖䧗䧘䧙䧚䧛䧜䧝䧞䧟䧠䧡䧢䧣䧤䧥䧦䧧䧨䧩䧪䧫䧬䧭䧮䧯䧰䧱䧲䧳䧴䧵䧶䧷䧸䧹䧺䧻䧼䧽䧾䧿",
      "䪀䪁䪂䪃䪄䪅䪆䪇䪈䪉䪊䪋䪌䪍䪎䪏䪐䪑䪒䪓䪔䪕䪖䪗䪘䪙䪚䪛䪜䪝䪞䪟䪠䪡䪢䪣䪤䪥䪦䪧䪨䪩䪪䪫䪬䪭䪮䪯䪰䪱䪲䪳䪴䪵䪶䪷䪸䪹䪺䪻䪼䪽䪾䪿䫀䫁䫂䫃䫄䫅䫆䫇䫈䫉䫊䫋䫌䫍䫎䫏䫐䫑䫒䫓䫔䫕䫖䫗䫘䫙䫚䫛䫜䫝䫞䫟䫠䫡䫢䫣䫤䫥䫦䫧䫨䫩䫪䫫䫬䫭䫮䫯䫰䫱䫲䫳䫴䫵䫶䫷䫸䫹䫺䫻䫼䫽䫾䫿",
      "䮀䮁䮂䮃䮄䮅䮆䮇䮈䮉䮊䮋䮌䮍䮎䮏䮐䮑䮒䮓䮔䮕䮖䮗䮘䮙䮚䮛䮜䮝䮞䮟䮠䮡䮢䮣䮤䮥䮦䮧䮨䮩䮪䮫䮬䮭䮮䮯䮰䮱䮲䮳䮴䮵䮶䮷䮸䮹䮺䮻䮼䮽䮾䮿䯀䯁䯂䯃䯄䯅䯆䯇䯈䯉䯊䯋䯌䯍䯎䯏䯐䯑䯒䯓䯔䯕䯖䯗䯘䯙䯚䯛䯜䯝䯞䯟䯠䯡䯢䯣䯤䯥䯦䯧䯨䯩䯪䯫䯬䯭䯮䯯䯰䯱䯲䯳䯴䯵䯶䯷䯸䯹䯺䯻䯼䯽䯾䯿",
      "䲀䲁䲂䲃䲄䲅䲆䲇䲈䲉䲊䲋䲌䲍䲎䲏䲐䲑䲒䲓䲔䲕䲖䲗䲘䲙䲚䲛䲜䲝䲞䲟䲠䲡䲢䲣䲤䲥䲦䲧䲨䲩䲪䲫䲬䲭䲮䲯䲰䲱䲲䲳䲴䲵䲶䲷䲸䲹䲺䲻䲼䲽䲾䲿䳀䳁䳂䳃䳄䳅䳆䳇䳈䳉䳊䳋䳌䳍䳎䳏䳐䳑䳒䳓䳔䳕䳖䳗䳘䳙䳚䳛䳜䳝䳞䳟䳠䳡䳢䳣䳤䳥䳦䳧䳨䳩䳪䳫䳬䳭䳮䳯䳰䳱䳲䳳䳴䳵䳶䳷䳸䳹䳺䳻䳼䳽䳾䳿",
      "䶀䶁䶂䶃䶄䶅䶆䶇䶈䶉䶊䶋䶌䶍䶎䶏䶐䶑䶒䶓䶔䶕䶖䶗䶘䶙䶚䶛䶜䶝䶞䶟䶠䶡䶢䶣䶤䶥䶦䶧䶨䶩䶪䶫䶬䶭䶮䶯䶰䶱䶲䶳䶴䶵䶶䶷䶸䶹䶺䶻䶼䶽䶾䶿䷀䷁䷂䷃䷄䷅䷆䷇䷈䷉䷊䷋䷌䷍䷎䷏䷐䷑䷒䷓䷔䷕䷖䷗䷘䷙䷚䷛䷜䷝䷞䷟䷠䷡䷢䷣䷤䷥䷦䷧䷨䷩䷪䷫䷬䷭䷮䷯䷰䷱䷲䷳䷴䷵䷶䷷䷸䷹䷺䷻䷼䷽䷾䷿",
      "亀亁亂亃亄亅了亇予争亊事二亍于亏亐云互亓五井亖亗亘亙亚些亜亝亞亟亠亡亢亣交亥亦产亨亩亪享京亭亮亯亰亱亲亳亴亵亶亷亸亹人亻亼亽亾亿什仁仂仃仄仅仆仇仈仉今介仌仍从仏仐仑仒仓仔仕他仗付仙仚仛仜仝仞仟仠仡仢代令以仦仧仨仩仪仫们仭仮仯仰仱仲仳仴仵件价仸仹仺任仼份仾仿",
      "侀侁侂侃侄侅來侇侈侉侊例侌侍侎侏侐侑侒侓侔侕侖侗侘侙侚供侜依侞侟侠価侢侣侤侥侦侧侨侩侪侫侬侭侮侯侰侱侲侳侴侵侶侷侸侹侺侻侼侽侾便俀俁係促俄俅俆俇俈俉俊俋俌俍俎俏俐俑俒俓俔俕俖俗俘俙俚俛俜保俞俟俠信俢俣俤俥俦俧俨俩俪俫俬俭修俯俰俱俲俳俴俵俶俷俸俹俺俻俼俽俾俿",
      "傀傁傂傃傄傅傆傇傈傉傊傋傌傍傎傏傐傑傒傓傔傕傖傗傘備傚傛傜傝傞傟傠傡傢傣傤傥傦傧储傩傪傫催傭傮傯傰傱傲傳傴債傶傷傸傹傺傻傼傽傾傿僀僁僂僃僄僅僆僇僈僉僊僋僌働僎像僐僑僒僓僔僕僖僗僘僙僚僛僜僝僞僟僠僡僢僣僤僥僦僧僨僩僪僫僬僭僮僯僰僱僲僳僴僵僶僷僸價僺僻僼僽僾僿",
      "冀冁冂冃冄内円冇冈冉冊冋册再冎冏冐冑冒冓冔冕冖冗冘写冚军农冝冞冟冠冡冢冣冤冥冦冧冨冩冪冫冬冭冮冯冰冱冲决冴况冶冷冸冹冺冻冼冽冾冿净凁凂凃凄凅准凇凈凉凊凋凌凍凎减凐凑凒凓凔凕凖凗凘凙凚凛凜凝凞凟几凡凢凣凤凥処凧凨凩凪凫凬凭凮凯凰凱凲凳凴凵凶凷凸凹出击凼函凾凿",
      "劀劁劂劃劄劅劆劇劈劉劊劋劌劍劎劏劐劑劒劓劔劕劖劗劘劙劚力劜劝办功加务劢劣劤劥劦劧动助努劫劬劭劮劯劰励劲劳労劵劶劷劸効劺劻劼劽劾势勀勁勂勃勄勅勆勇勈勉勊勋勌勍勎勏勐勑勒勓勔動勖勗勘務勚勛勜勝勞募勠勡勢勣勤勥勦勧勨勩勪勫勬勭勮勯勰勱勲勳勴勵勶勷勸勹勺勻勼勽勾勿",
      "厀厁厂厃厄厅历厇厈厉厊压厌厍厎厏厐厑厒厓厔厕厖厗厘厙厚厛厜厝厞原厠厡厢厣厤厥厦厧厨厩厪厫厬厭厮厯厰厱厲厳厴厵厶厷厸厹厺去厼厽厾县叀叁参參叄叅叆叇又叉及友双反収叏叐发叒叓叔叕取受变叙叚叛叜叝叞叟叠叡叢口古句另叧叨叩只叫召叭叮可台叱史右叴叵叶号司叹叺叻叼叽叾叿",
      "咀咁咂咃咄咅咆咇咈咉咊咋和咍咎咏咐咑咒咓咔咕咖咗咘咙咚咛咜咝咞咟咠咡咢咣咤咥咦咧咨咩咪咫咬咭咮咯咰咱咲咳咴咵咶咷咸咹咺咻咼咽咾咿哀品哂哃哄哅哆哇哈哉哊哋哌响哎哏哐哑哒哓哔哕哖哗哘哙哚哛哜哝哞哟哠員哢哣哤哥哦哧哨哩哪哫哬哭哮哯哰哱哲哳哴哵哶哷哸哹哺哻哼哽哾哿",
      "喀喁喂喃善喅喆喇喈喉喊喋喌喍喎喏喐喑喒喓喔喕喖喗喘喙喚喛喜喝喞喟喠喡喢喣喤喥喦喧喨喩喪喫喬喭單喯喰喱喲喳喴喵営喷喸喹喺喻喼喽喾喿嗀嗁嗂嗃嗄嗅嗆嗇嗈嗉嗊嗋嗌嗍嗎嗏嗐嗑嗒嗓嗔嗕嗖嗗嗘嗙嗚嗛嗜嗝嗞嗟嗠嗡嗢嗣嗤嗥嗦嗧嗨嗩嗪嗫嗬嗭嗮嗯嗰嗱嗲嗳嗴嗵嗶嗷嗸嗹嗺嗻嗼嗽嗾嗿",
      "嚀嚁嚂嚃嚄嚅嚆嚇嚈嚉嚊嚋嚌嚍嚎嚏嚐嚑嚒嚓嚔嚕嚖嚗嚘嚙嚚嚛嚜嚝嚞嚟嚠嚡嚢嚣嚤嚥嚦嚧嚨嚩嚪嚫嚬嚭嚮嚯嚰嚱嚲嚳嚴嚵嚶嚷嚸嚹嚺嚻嚼嚽嚾嚿囀囁囂囃囄囅囆囇囈囉囊囋囌囍囎囏囐囑囒囓囔囕囖囗囘囙囚四囜囝回囟因囡团団囤囥囦囧囨囩囪囫囬园囮囯困囱囲図围囵囶囷囸囹固囻囼国图囿",
      "垀垁垂垃垄垅垆垇垈垉垊型垌垍垎垏垐垑垒垓垔垕垖垗垘垙垚垛垜垝垞垟垠垡垢垣垤垥垦垧垨垩垪垫垬垭垮垯垰垱垲垳垴垵垶垷垸垹垺垻垼垽垾垿埀埁埂埃埄埅埆埇埈埉埊埋埌埍城埏埐埑埒埓埔埕埖埗埘埙埚埛埜埝埞域埠埡埢埣埤埥埦埧埨埩埪埫埬埭埮埯埰埱埲埳埴埵埶執埸培基埻埼埽埾埿",
      "墀墁墂境墄墅墆墇墈墉墊墋墌墍墎墏墐墑墒墓墔墕墖増墘墙墚墛墜墝增墟墠墡墢墣墤墥墦墧墨墩墪墫墬墭墮墯墰墱墲墳墴墵墶墷墸墹墺墻墼墽墾墿壀壁壂壃壄壅壆壇壈壉壊壋壌壍壎壏壐壑壒壓壔壕壖壗壘壙壚壛壜壝壞壟壠壡壢壣壤壥壦壧壨壩壪士壬壭壮壯声壱売壳壴壵壶壷壸壹壺壻壼壽壾壿",
      "妀妁如妃妄妅妆妇妈妉妊妋妌妍妎妏妐妑妒妓妔妕妖妗妘妙妚妛妜妝妞妟妠妡妢妣妤妥妦妧妨妩妪妫妬妭妮妯妰妱妲妳妴妵妶妷妸妹妺妻妼妽妾妿姀姁姂姃姄姅姆姇姈姉姊始姌姍姎姏姐姑姒姓委姕姖姗姘姙姚姛姜姝姞姟姠姡姢姣姤姥姦姧姨姩姪姫姬姭姮姯姰姱姲姳姴姵姶姷姸姹姺姻姼姽姾姿",
      "媀媁媂媃媄媅媆媇媈媉媊媋媌媍媎媏媐媑媒媓媔媕媖媗媘媙媚媛媜媝媞媟媠媡媢媣媤媥媦媧媨媩媪媫媬媭媮媯媰媱媲媳媴媵媶媷媸媹媺媻媼媽媾媿嫀嫁嫂嫃嫄嫅嫆嫇嫈嫉嫊嫋嫌嫍嫎嫏嫐嫑嫒嫓嫔嫕嫖嫗嫘嫙嫚嫛嫜嫝嫞嫟嫠嫡嫢嫣嫤嫥嫦嫧嫨嫩嫪嫫嫬嫭嫮嫯嫰嫱嫲嫳嫴嫵嫶嫷嫸嫹嫺嫻嫼嫽嫾嫿",
      "宀宁宂它宄宅宆宇守安宊宋完宍宎宏宐宑宒宓宔宕宖宗官宙定宛宜宝实実宠审客宣室宥宦宧宨宩宪宫宬宭宮宯宰宱宲害宴宵家宷宸容宺宻宼宽宾宿寀寁寂寃寄寅密寇寈寉寊寋富寍寎寏寐寑寒寓寔寕寖寗寘寙寚寛寜寝寞察寠寡寢寣寤寥實寧寨審寪寫寬寭寮寯寰寱寲寳寴寵寶寷寸对寺寻导寽対寿",
      "岀岁岂岃岄岅岆岇岈岉岊岋岌岍岎岏岐岑岒岓岔岕岖岗岘岙岚岛岜岝岞岟岠岡岢岣岤岥岦岧岨岩岪岫岬岭岮岯岰岱岲岳岴岵岶岷岸岹岺岻岼岽岾岿峀峁峂峃峄峅峆峇峈峉峊峋峌峍峎峏峐峑峒峓峔峕峖峗峘峙峚峛峜峝峞峟峠峡峢峣峤峥峦峧峨峩峪峫峬峭峮峯峰峱峲峳峴峵島峷峸峹峺峻峼峽峾峿",
      "嶀嶁嶂嶃嶄嶅嶆嶇嶈嶉嶊嶋嶌嶍嶎嶏嶐嶑嶒嶓嶔嶕嶖嶗嶘嶙嶚嶛嶜嶝嶞嶟嶠嶡嶢嶣嶤嶥嶦嶧嶨嶩嶪嶫嶬嶭嶮嶯嶰嶱嶲嶳嶴嶵嶶嶷嶸嶹嶺嶻嶼嶽嶾嶿巀巁巂巃巄巅巆巇巈巉巊巋巌巍巎巏巐巑巒巓巔巕巖巗巘巙巚巛巜川州巟巠巡巢巣巤工左巧巨巩巪巫巬巭差巯巰己已巳巴巵巶巷巸巹巺巻巼巽巾巿",
      "庀庁庂広庄庅庆庇庈庉床庋庌庍庎序庐庑庒库应底庖店庘庙庚庛府庝庞废庠庡庢庣庤庥度座庨庩庪庫庬庭庮庯庰庱庲庳庴庵庶康庸庹庺庻庼庽庾庿廀廁廂廃廄廅廆廇廈廉廊廋廌廍廎廏廐廑廒廓廔廕廖廗廘廙廚廛廜廝廞廟廠廡廢廣廤廥廦廧廨廩廪廫廬廭廮廯廰廱廲廳廴廵延廷廸廹建廻廼廽廾廿",
      "往征徂徃径待徆徇很徉徊律後徍徎徏徐徑徒従徔徕徖得徘徙徚徛徜徝從徟徠御徢徣徤徥徦徧徨復循徫徬徭微徯徰徱徲徳徴徵徶德徸徹徺徻徼徽徾徿忀忁忂心忄必忆忇忈忉忊忋忌忍忎忏忐忑忒忓忔忕忖志忘忙忚忛応忝忞忟忠忡忢忣忤忥忦忧忨忩忪快忬忭忮忯忰忱忲忳忴念忶忷忸忹忺忻忼忽忾忿",
      "悀悁悂悃悄悅悆悇悈悉悊悋悌悍悎悏悐悑悒悓悔悕悖悗悘悙悚悛悜悝悞悟悠悡悢患悤悥悦悧您悩悪悫悬悭悮悯悰悱悲悳悴悵悶悷悸悹悺悻悼悽悾悿惀惁惂惃惄情惆惇惈惉惊惋惌惍惎惏惐惑惒惓惔惕惖惗惘惙惚惛惜惝惞惟惠惡惢惣惤惥惦惧惨惩惪惫惬惭惮惯惰惱惲想惴惵惶惷惸惹惺惻惼惽惾惿",
      "憀憁憂憃憄憅憆憇憈憉憊憋憌憍憎憏憐憑憒憓憔憕憖憗憘憙憚憛憜憝憞憟憠憡憢憣憤憥憦憧憨憩憪憫憬憭憮憯憰憱憲憳憴憵憶憷憸憹憺憻憼憽憾憿懀懁懂懃懄懅懆懇懈應懊懋懌懍懎懏懐懑懒懓懔懕懖懗懘懙懚懛懜懝懞懟懠懡懢懣懤懥懦懧懨懩懪懫懬懭懮懯懰懱懲懳懴懵懶懷懸懹懺懻懼懽懾懿",
      "技抁抂抃抄抅抆抇抈抉把抋抌抍抎抏抐抑抒抓抔投抖抗折抙抚抛抜抝択抟抠抡抢抣护报抦抧抨抩抪披抬抭抮抯抰抱抲抳抴抵抶抷抸抹抺抻押抽抾抿拀拁拂拃拄担拆拇拈拉拊拋拌拍拎拏拐拑拒拓拔拕拖拗拘拙拚招拜拝拞拟拠拡拢拣拤拥拦拧拨择拪拫括拭拮拯拰拱拲拳拴拵拶拷拸拹拺拻拼拽拾拿",
      "掀掁掂掃掄掅掆掇授掉掊掋掌掍掎掏掐掑排掓掔掕掖掗掘掙掚掛掜掝掞掟掠採探掣掤接掦控推掩措掫掬掭掮掯掰掱掲掳掴掵掶掷掸掹掺掻掼掽掾掿揀揁揂揃揄揅揆揇揈揉揊揋揌揍揎描提揑插揓揔揕揖揗揘揙揚換揜揝揞揟揠握揢揣揤揥揦揧揨揩揪揫揬揭揮揯揰揱揲揳援揵揶揷揸揹揺揻揼揽揾揿",
      "撀撁撂撃撄撅撆撇撈撉撊撋撌撍撎撏撐撑撒撓撔撕撖撗撘撙撚撛撜撝撞撟撠撡撢撣撤撥撦撧撨撩撪撫撬播撮撯撰撱撲撳撴撵撶撷撸撹撺撻撼撽撾撿擀擁擂擃擄擅擆擇擈擉擊擋擌操擎擏擐擑擒擓擔擕擖擗擘擙據擛擜擝擞擟擠擡擢擣擤擥擦擧擨擩擪擫擬擭擮擯擰擱擲擳擴擵擶擷擸擹擺擻擼擽擾擿",
      "斀斁斂斃斄斅斆文斈斉斊斋斌斍斎斏斐斑斒斓斔斕斖斗斘料斚斛斜斝斞斟斠斡斢斣斤斥斦斧斨斩斪斫斬断斮斯新斱斲斳斴斵斶斷斸方斺斻於施斾斿旀旁旂旃旄旅旆旇旈旉旊旋旌旍旎族旐旑旒旓旔旕旖旗旘旙旚旛旜旝旞旟无旡既旣旤日旦旧旨早旪旫旬旭旮旯旰旱旲旳旴旵时旷旸旹旺旻旼旽旾旿",
      "暀暁暂暃暄暅暆暇暈暉暊暋暌暍暎暏暐暑暒暓暔暕暖暗暘暙暚暛暜暝暞暟暠暡暢暣暤暥暦暧暨暩暪暫暬暭暮暯暰暱暲暳暴暵暶暷暸暹暺暻暼暽暾暿曀曁曂曃曄曅曆曇曈曉曊曋曌曍曎曏曐曑曒曓曔曕曖曗曘曙曚曛曜曝曞曟曠曡曢曣曤曥曦曧曨曩曪曫曬曭曮曯曰曱曲曳更曵曶曷書曹曺曻曼曽曾替",
      "枀极枂枃构枅枆枇枈枉枊枋枌枍枎枏析枑枒枓枔枕枖林枘枙枚枛果枝枞枟枠枡枢枣枤枥枦枧枨枩枪枫枬枭枮枯枰枱枲枳枴枵架枷枸枹枺枻枼枽枾枿柀柁柂柃柄柅柆柇柈柉柊柋柌柍柎柏某柑柒染柔柕柖柗柘柙柚柛柜柝柞柟柠柡柢柣柤查柦柧柨柩柪柫柬柭柮柯柰柱柲柳柴柵柶柷柸柹柺査柼柽柾柿",
      "梀梁梂梃梄梅梆梇梈梉梊梋梌梍梎梏梐梑梒梓梔梕梖梗梘梙梚梛梜條梞梟梠梡梢梣梤梥梦梧梨梩梪梫梬梭梮梯械梱梲梳梴梵梶梷梸梹梺梻梼梽梾梿检棁棂棃棄棅棆棇棈棉棊棋棌棍棎棏棐棑棒棓棔棕棖棗棘棙棚棛棜棝棞棟棠棡棢棣棤棥棦棧棨棩棪棫棬棭森棯棰棱棲棳棴棵棶棷棸棹棺棻棼棽棾棿",
      "榀榁概榃榄榅榆榇榈榉榊榋榌榍榎榏榐榑榒榓榔榕榖榗榘榙榚榛榜榝榞榟榠榡榢榣榤榥榦榧榨榩榪榫榬榭榮榯榰榱榲榳榴榵榶榷榸榹榺榻榼榽榾榿槀槁槂槃槄槅槆槇槈槉槊構槌槍槎槏槐槑槒槓槔槕槖槗様槙槚槛槜槝槞槟槠槡槢槣槤槥槦槧槨槩槪槫槬槭槮槯槰槱槲槳槴槵槶槷槸槹槺槻槼槽槾槿",
      "檀檁檂檃檄檅檆檇檈檉檊檋檌檍檎檏檐檑檒檓檔檕檖檗檘檙檚檛檜檝檞檟檠檡檢檣檤檥檦檧檨檩檪檫檬檭檮檯檰檱檲檳檴檵檶檷檸檹檺檻檼檽檾檿櫀櫁櫂櫃櫄櫅櫆櫇櫈櫉櫊櫋櫌櫍櫎櫏櫐櫑櫒櫓櫔櫕櫖櫗櫘櫙櫚櫛櫜櫝櫞櫟櫠櫡櫢櫣櫤櫥櫦櫧櫨櫩櫪櫫櫬櫭櫮櫯櫰櫱櫲櫳櫴櫵櫶櫷櫸櫹櫺櫻櫼櫽櫾櫿",
      "殀殁殂殃殄殅殆殇殈殉殊残殌殍殎殏殐殑殒殓殔殕殖殗殘殙殚殛殜殝殞殟殠殡殢殣殤殥殦殧殨殩殪殫殬殭殮殯殰殱殲殳殴段殶殷殸殹殺殻殼殽殾殿毀毁毂毃毄毅毆毇毈毉毊毋毌母毎每毐毑毒毓比毕毖毗毘毙毚毛毜毝毞毟毠毡毢毣毤毥毦毧毨毩毪毫毬毭毮毯毰毱毲毳毴毵毶毷毸毹毺毻毼毽毾毿",
      "沀沁沂沃沄沅沆沇沈沉沊沋沌沍沎沏沐沑沒沓沔沕沖沗沘沙沚沛沜沝沞沟沠没沢沣沤沥沦沧沨沩沪沫沬沭沮沯沰沱沲河沴沵沶沷沸油沺治沼沽沾沿泀況泂泃泄泅泆泇泈泉泊泋泌泍泎泏泐泑泒泓泔法泖泗泘泙泚泛泜泝泞泟泠泡波泣泤泥泦泧注泩泪泫泬泭泮泯泰泱泲泳泴泵泶泷泸泹泺泻泼泽泾泿",
      "涀涁涂涃涄涅涆涇消涉涊涋涌涍涎涏涐涑涒涓涔涕涖涗涘涙涚涛涜涝涞涟涠涡涢涣涤涥润涧涨涩涪涫涬涭涮涯涰涱液涳涴涵涶涷涸涹涺涻涼涽涾涿淀淁淂淃淄淅淆淇淈淉淊淋淌淍淎淏淐淑淒淓淔淕淖淗淘淙淚淛淜淝淞淟淠淡淢淣淤淥淦淧淨淩淪淫淬淭淮淯淰深淲淳淴淵淶混淸淹淺添淼淽淾淿",
      "満溁溂溃溄溅溆溇溈溉溊溋溌溍溎溏源溑溒溓溔溕準溗溘溙溚溛溜溝溞溟溠溡溢溣溤溥溦溧溨溩溪溫溬溭溮溯溰溱溲溳溴溵溶溷溸溹溺溻溼溽溾溿滀滁滂滃滄滅滆滇滈滉滊滋滌滍滎滏滐滑滒滓滔滕滖滗滘滙滚滛滜滝滞滟滠满滢滣滤滥滦滧滨滩滪滫滬滭滮滯滰滱滲滳滴滵滶滷滸滹滺滻滼滽滾滿",
      "澀澁澂澃澄澅澆澇澈澉澊澋澌澍澎澏澐澑澒澓澔澕澖澗澘澙澚澛澜澝澞澟澠澡澢澣澤澥澦澧澨澩澪澫澬澭澮澯澰澱澲澳澴澵澶澷澸澹澺澻澼澽澾澿激濁濂濃濄濅濆濇濈濉濊濋濌濍濎濏濐濑濒濓濔濕濖濗濘濙濚濛濜濝濞濟濠濡濢濣濤濥濦濧濨濩濪濫濬濭濮濯濰濱濲濳濴濵濶濷濸濹濺濻濼濽濾濿",
      "炀炁炂炃炄炅炆炇炈炉炊炋炌炍炎炏炐炑炒炓炔炕炖炗炘炙炚炛炜炝炞炟炠炡炢炣炤炥炦炧炨炩炪炫炬炭炮炯炰炱炲炳炴炵炶炷炸点為炻炼炽炾炿烀烁烂烃烄烅烆烇烈烉烊烋烌烍烎烏烐烑烒烓烔烕烖烗烘烙烚烛烜烝烞烟烠烡烢烣烤烥烦烧烨烩烪烫烬热烮烯烰烱烲烳烴烵烶烷烸烹烺烻烼烽烾烿",
      "熀熁熂熃熄熅熆熇熈熉熊熋熌熍熎熏熐熑熒熓熔熕熖熗熘熙熚熛熜熝熞熟熠熡熢熣熤熥熦熧熨熩熪熫熬熭熮熯熰熱熲熳熴熵熶熷熸熹熺熻熼熽熾熿燀燁燂燃燄燅燆燇燈燉燊燋燌燍燎燏燐燑燒燓燔燕燖燗燘燙燚燛燜燝燞營燠燡燢燣燤燥燦燧燨燩燪燫燬燭燮燯燰燱燲燳燴燵燶燷燸燹燺燻燼燽燾燿",
      "犀犁犂犃犄犅犆犇犈犉犊犋犌犍犎犏犐犑犒犓犔犕犖犗犘犙犚犛犜犝犞犟犠犡犢犣犤犥犦犧犨犩犪犫犬犭犮犯犰犱犲犳犴犵状犷犸犹犺犻犼犽犾犿狀狁狂狃狄狅狆狇狈狉狊狋狌狍狎狏狐狑狒狓狔狕狖狗狘狙狚狛狜狝狞狟狠狡狢狣狤狥狦狧狨狩狪狫独狭狮狯狰狱狲狳狴狵狶狷狸狹狺狻狼狽狾狿",
      "玀玁玂玃玄玅玆率玈玉玊王玌玍玎玏玐玑玒玓玔玕玖玗玘玙玚玛玜玝玞玟玠玡玢玣玤玥玦玧玨玩玪玫玬玭玮环现玱玲玳玴玵玶玷玸玹玺玻玼玽玾玿珀珁珂珃珄珅珆珇珈珉珊珋珌珍珎珏珐珑珒珓珔珕珖珗珘珙珚珛珜珝珞珟珠珡珢珣珤珥珦珧珨珩珪珫珬班珮珯珰珱珲珳珴珵珶珷珸珹珺珻珼珽現珿",
      "璀璁璂璃璄璅璆璇璈璉璊璋璌璍璎璏璐璑璒璓璔璕璖璗璘璙璚璛璜璝璞璟璠璡璢璣璤璥璦璧璨璩璪璫璬璭璮璯環璱璲璳璴璵璶璷璸璹璺璻璼璽璾璿瓀瓁瓂瓃瓄瓅瓆瓇瓈瓉瓊瓋瓌瓍瓎瓏瓐瓑瓒瓓瓔瓕瓖瓗瓘瓙瓚瓛瓜瓝瓞瓟瓠瓡瓢瓣瓤瓥瓦瓧瓨瓩瓪瓫瓬瓭瓮瓯瓰瓱瓲瓳瓴瓵瓶瓷瓸瓹瓺瓻瓼瓽瓾瓿",
      "疀疁疂疃疄疅疆疇疈疉疊疋疌疍疎疏疐疑疒疓疔疕疖疗疘疙疚疛疜疝疞疟疠疡疢疣疤疥疦疧疨疩疪疫疬疭疮疯疰疱疲疳疴疵疶疷疸疹疺疻疼疽疾疿痀痁痂痃痄病痆症痈痉痊痋痌痍痎痏痐痑痒痓痔痕痖痗痘痙痚痛痜痝痞痟痠痡痢痣痤痥痦痧痨痩痪痫痬痭痮痯痰痱痲痳痴痵痶痷痸痹痺痻痼痽痾痿",
      "皀皁皂皃的皅皆皇皈皉皊皋皌皍皎皏皐皑皒皓皔皕皖皗皘皙皚皛皜皝皞皟皠皡皢皣皤皥皦皧皨皩皪皫皬皭皮皯皰皱皲皳皴皵皶皷皸皹皺皻皼皽皾皿盀盁盂盃盄盅盆盇盈盉益盋盌盍盎盏盐监盒盓盔盕盖盗盘盙盚盛盜盝盞盟盠盡盢監盤盥盦盧盨盩盪盫盬盭目盯盰盱盲盳直盵盶盷相盹盺盻盼盽盾盿",
      "瞀瞁瞂瞃瞄瞅瞆瞇瞈瞉瞊瞋瞌瞍瞎瞏瞐瞑瞒瞓瞔瞕瞖瞗瞘瞙瞚瞛瞜瞝瞞瞟瞠瞡瞢瞣瞤瞥瞦瞧瞨瞩瞪瞫瞬瞭瞮瞯瞰瞱瞲瞳瞴瞵瞶瞷瞸瞹瞺瞻瞼瞽瞾瞿矀矁矂矃矄矅矆矇矈矉矊矋矌矍矎矏矐矑矒矓矔矕矖矗矘矙矚矛矜矝矞矟矠矡矢矣矤知矦矧矨矩矪矫矬短矮矯矰矱矲石矴矵矶矷矸矹矺矻矼矽矾矿",
      "碀碁碂碃碄碅碆碇碈碉碊碋碌碍碎碏碐碑碒碓碔碕碖碗碘碙碚碛碜碝碞碟碠碡碢碣碤碥碦碧碨碩碪碫碬碭碮碯碰碱碲碳碴碵碶碷碸碹確碻碼碽碾碿磀磁磂磃磄磅磆磇磈磉磊磋磌磍磎磏磐磑磒磓磔磕磖磗磘磙磚磛磜磝磞磟磠磡磢磣磤磥磦磧磨磩磪磫磬磭磮磯磰磱磲磳磴磵磶磷磸磹磺磻磼磽磾磿",
      "禀禁禂禃禄禅禆禇禈禉禊禋禌禍禎福禐禑禒禓禔禕禖禗禘禙禚禛禜禝禞禟禠禡禢禣禤禥禦禧禨禩禪禫禬禭禮禯禰禱禲禳禴禵禶禷禸禹禺离禼禽禾禿秀私秂秃秄秅秆秇秈秉秊秋秌种秎秏秐科秒秓秔秕秖秗秘秙秚秛秜秝秞租秠秡秢秣秤秥秦秧秨秩秪秫秬秭秮积称秱秲秳秴秵秶秷秸秹秺移秼秽秾秿",
      "窀突窂窃窄窅窆窇窈窉窊窋窌窍窎窏窐窑窒窓窔窕窖窗窘窙窚窛窜窝窞窟窠窡窢窣窤窥窦窧窨窩窪窫窬窭窮窯窰窱窲窳窴窵窶窷窸窹窺窻窼窽窾窿竀竁竂竃竄竅竆竇竈竉竊立竌竍竎竏竐竑竒竓竔竕竖竗竘站竚竛竜竝竞竟章竡竢竣竤童竦竧竨竩竪竫竬竭竮端竰竱竲竳竴竵競竷竸竹竺竻竼竽竾竿",
      "简箁箂箃箄箅箆箇箈箉箊箋箌箍箎箏箐箑箒箓箔箕箖算箘箙箚箛箜箝箞箟箠管箢箣箤箥箦箧箨箩箪箫箬箭箮箯箰箱箲箳箴箵箶箷箸箹箺箻箼箽箾箿節篁篂篃範篅篆篇篈築篊篋篌篍篎篏篐篑篒篓篔篕篖篗篘篙篚篛篜篝篞篟篠篡篢篣篤篥篦篧篨篩篪篫篬篭篮篯篰篱篲篳篴篵篶篷篸篹篺篻篼篽篾篿",
      "粀粁粂粃粄粅粆粇粈粉粊粋粌粍粎粏粐粑粒粓粔粕粖粗粘粙粚粛粜粝粞粟粠粡粢粣粤粥粦粧粨粩粪粫粬粭粮粯粰粱粲粳粴粵粶粷粸粹粺粻粼粽精粿糀糁糂糃糄糅糆糇糈糉糊糋糌糍糎糏糐糑糒糓糔糕糖糗糘糙糚糛糜糝糞糟糠糡糢糣糤糥糦糧糨糩糪糫糬糭糮糯糰糱糲糳糴糵糶糷糸糹糺系糼糽糾糿",
      "綀綁綂綃綄綅綆綇綈綉綊綋綌綍綎綏綐綑綒經綔綕綖綗綘継続綛綜綝綞綟綠綡綢綣綤綥綦綧綨綩綪綫綬維綮綯綰綱網綳綴綵綶綷綸綹綺綻綼綽綾綿緀緁緂緃緄緅緆緇緈緉緊緋緌緍緎総緐緑緒緓緔緕緖緗緘緙線緛緜緝緞緟締緡緢緣緤緥緦緧編緩緪緫緬緭緮緯緰緱緲緳練緵緶緷緸緹緺緻緼緽緾緿",
      "纀纁纂纃纄纅纆纇纈纉纊纋續纍纎纏纐纑纒纓纔纕纖纗纘纙纚纛纜纝纞纟纠纡红纣纤纥约级纨纩纪纫纬纭纮纯纰纱纲纳纴纵纶纷纸纹纺纻纼纽纾线绀绁绂练组绅细织终绉绊绋绌绍绎经绐绑绒结绔绕绖绗绘给绚绛络绝绞统绠绡绢绣绤绥绦继绨绩绪绫绬续绮绯绰绱绲绳维绵绶绷绸绹绺绻综绽绾绿",
      "羀羁羂羃羄羅羆羇羈羉羊羋羌羍美羏羐羑羒羓羔羕羖羗羘羙羚羛羜羝羞羟羠羡羢羣群羥羦羧羨義羪羫羬羭羮羯羰羱羲羳羴羵羶羷羸羹羺羻羼羽羾羿翀翁翂翃翄翅翆翇翈翉翊翋翌翍翎翏翐翑習翓翔翕翖翗翘翙翚翛翜翝翞翟翠翡翢翣翤翥翦翧翨翩翪翫翬翭翮翯翰翱翲翳翴翵翶翷翸翹翺翻翼翽翾翿",
      "肀肁肂肃肄肅肆肇肈肉肊肋肌肍肎肏肐肑肒肓肔肕肖肗肘肙肚肛肜肝肞肟肠股肢肣肤肥肦肧肨肩肪肫肬肭肮肯肰肱育肳肴肵肶肷肸肹肺肻肼肽肾肿胀胁胂胃胄胅胆胇胈胉胊胋背胍胎胏胐胑胒胓胔胕胖胗胘胙胚胛胜胝胞胟胠胡胢胣胤胥胦胧胨胩胪胫胬胭胮胯胰胱胲胳胴胵胶胷胸胹胺胻胼能胾胿",
      "膀膁膂膃膄膅膆膇膈膉膊膋膌膍膎膏膐膑膒膓膔膕膖膗膘膙膚膛膜膝膞膟膠膡膢膣膤膥膦膧膨膩膪膫膬膭膮膯膰膱膲膳膴膵膶膷膸膹膺膻膼膽膾膿臀臁臂臃臄臅臆臇臈臉臊臋臌臍臎臏臐臑臒臓臔臕臖臗臘臙臚臛臜臝臞臟臠臡臢臣臤臥臦臧臨臩自臫臬臭臮臯臰臱臲至致臵臶臷臸臹臺臻臼臽臾臿",
      "芀芁节芃芄芅芆芇芈芉芊芋芌芍芎芏芐芑芒芓芔芕芖芗芘芙芚芛芜芝芞芟芠芡芢芣芤芥芦芧芨芩芪芫芬芭芮芯芰花芲芳芴芵芶芷芸芹芺芻芼芽芾芿苀苁苂苃苄苅苆苇苈苉苊苋苌苍苎苏苐苑苒苓苔苕苖苗苘苙苚苛苜苝苞苟苠苡苢苣苤若苦苧苨苩苪苫苬苭苮苯苰英苲苳苴苵苶苷苸苹苺苻苼苽苾苿",
      "莀莁莂莃莄莅莆莇莈莉莊莋莌莍莎莏莐莑莒莓莔莕莖莗莘莙莚莛莜莝莞莟莠莡莢莣莤莥莦莧莨莩莪莫莬莭莮莯莰莱莲莳莴莵莶获莸莹莺莻莼莽莾莿菀菁菂菃菄菅菆菇菈菉菊菋菌菍菎菏菐菑菒菓菔菕菖菗菘菙菚菛菜菝菞菟菠菡菢菣菤菥菦菧菨菩菪菫菬菭菮華菰菱菲菳菴菵菶菷菸菹菺菻菼菽菾菿",
      "蒀蒁蒂蒃蒄蒅蒆蒇蒈蒉蒊蒋蒌蒍蒎蒏蒐蒑蒒蒓蒔蒕蒖蒗蒘蒙蒚蒛蒜蒝蒞蒟蒠蒡蒢蒣蒤蒥蒦蒧蒨蒩蒪蒫蒬蒭蒮蒯蒰蒱蒲蒳蒴蒵蒶蒷蒸蒹蒺蒻蒼蒽蒾蒿蓀蓁蓂蓃蓄蓅蓆蓇蓈蓉蓊蓋蓌蓍蓎蓏蓐蓑蓒蓓蓔蓕蓖蓗蓘蓙蓚蓛蓜蓝蓞蓟蓠蓡蓢蓣蓤蓥蓦蓧蓨蓩蓪蓫蓬蓭蓮蓯蓰蓱蓲蓳蓴蓵蓶蓷蓸蓹蓺蓻蓼蓽蓾蓿",
      "薀薁薂薃薄薅薆薇薈薉薊薋薌薍薎薏薐薑薒薓薔薕薖薗薘薙薚薛薜薝薞薟薠薡薢薣薤薥薦薧薨薩薪薫薬薭薮薯薰薱薲薳薴薵薶薷薸薹薺薻薼薽薾薿藀藁藂藃藄藅藆藇藈藉藊藋藌藍藎藏藐藑藒藓藔藕藖藗藘藙藚藛藜藝藞藟藠藡藢藣藤藥藦藧藨藩藪藫藬藭藮藯藰藱藲藳藴藵藶藷藸藹藺藻藼藽藾藿",
      "蚀蚁蚂蚃蚄蚅蚆蚇蚈蚉蚊蚋蚌蚍蚎蚏蚐蚑蚒蚓蚔蚕蚖蚗蚘蚙蚚蚛蚜蚝蚞蚟蚠蚡蚢蚣蚤蚥蚦蚧蚨蚩蚪蚫蚬蚭蚮蚯蚰蚱蚲蚳蚴蚵蚶蚷蚸蚹蚺蚻蚼蚽蚾蚿蛀蛁蛂蛃蛄蛅蛆蛇蛈蛉蛊蛋蛌蛍蛎蛏蛐蛑蛒蛓蛔蛕蛖蛗蛘蛙蛚蛛蛜蛝蛞蛟蛠蛡蛢蛣蛤蛥蛦蛧蛨蛩蛪蛫蛬蛭蛮蛯蛰蛱蛲蛳蛴蛵蛶蛷蛸蛹蛺蛻蛼蛽蛾蛿",
      "螀螁螂螃螄螅螆螇螈螉螊螋螌融螎螏螐螑螒螓螔螕螖螗螘螙螚螛螜螝螞螟螠螡螢螣螤螥螦螧螨螩螪螫螬螭螮螯螰螱螲螳螴螵螶螷螸螹螺螻螼螽螾螿蟀蟁蟂蟃蟄蟅蟆蟇蟈蟉蟊蟋蟌蟍蟎蟏蟐蟑蟒蟓蟔蟕蟖蟗蟘蟙蟚蟛蟜蟝蟞蟟蟠蟡蟢蟣蟤蟥蟦蟧蟨蟩蟪蟫蟬蟭蟮蟯蟰蟱蟲蟳蟴蟵蟶蟷蟸蟹蟺蟻蟼蟽蟾蟿",
      "袀袁袂袃袄袅袆袇袈袉袊袋袌袍袎袏袐袑袒袓袔袕袖袗袘袙袚袛袜袝袞袟袠袡袢袣袤袥袦袧袨袩袪被袬袭袮袯袰袱袲袳袴袵袶袷袸袹袺袻袼袽袾袿裀裁裂裃裄装裆裇裈裉裊裋裌裍裎裏裐裑裒裓裔裕裖裗裘裙裚裛補裝裞裟裠裡裢裣裤裥裦裧裨裩裪裫裬裭裮裯裰裱裲裳裴裵裶裷裸裹裺裻裼製裾裿",
      "覀要覂覃覄覅覆覇覈覉覊見覌覍覎規覐覑覒覓覔覕視覗覘覙覚覛覜覝覞覟覠覡覢覣覤覥覦覧覨覩親覫覬覭覮覯覰覱覲観覴覵覶覷覸覹覺覻覼覽覾覿觀见观觃规觅视觇览觉觊觋觌觍觎觏觐觑角觓觔觕觖觗觘觙觚觛觜觝觞觟觠觡觢解觤觥触觧觨觩觪觫觬觭觮觯觰觱觲觳觴觵觶觷觸觹觺觻觼觽觾觿",
      "誀誁誂誃誄誅誆誇誈誉誊誋誌認誎誏誐誑誒誓誔誕誖誗誘誙誚誛誜誝語誟誠誡誢誣誤誥誦誧誨誩說誫説読誮誯誰誱課誳誴誵誶誷誸誹誺誻誼誽誾調諀諁諂諃諄諅諆談諈諉諊請諌諍諎諏諐諑諒諓諔諕論諗諘諙諚諛諜諝諞諟諠諡諢諣諤諥諦諧諨諩諪諫諬諭諮諯諰諱諲諳諴諵諶諷諸諹諺諻諼諽諾諿",
      "讀讁讂讃讄讅讆讇讈讉變讋讌讍讎讏讐讑讒讓讔讕讖讗讘讙讚讛讜讝讞讟讠计订讣认讥讦讧讨让讪讫讬训议讯记讱讲讳讴讵讶讷许讹论讻讼讽设访诀证诂诃评诅识诇诈诉诊诋诌词诎诏诐译诒诓诔试诖诗诘诙诚诛诜话诞诟诠诡询诣诤该详诧诨诩诪诫诬语诮误诰诱诲诳说诵诶请诸诹诺读诼诽课诿",
      "貀貁貂貃貄貅貆貇貈貉貊貋貌貍貎貏貐貑貒貓貔貕貖貗貘貙貚貛貜貝貞貟負財貢貣貤貥貦貧貨販貪貫責貭貮貯貰貱貲貳貴貵貶買貸貹貺費貼貽貾貿賀賁賂賃賄賅賆資賈賉賊賋賌賍賎賏賐賑賒賓賔賕賖賗賘賙賚賛賜賝賞賟賠賡賢賣賤賥賦賧賨賩質賫賬賭賮賯賰賱賲賳賴賵賶賷賸賹賺賻購賽賾賿",
      "趀趁趂趃趄超趆趇趈趉越趋趌趍趎趏趐趑趒趓趔趕趖趗趘趙趚趛趜趝趞趟趠趡趢趣趤趥趦趧趨趩趪趫趬趭趮趯趰趱趲足趴趵趶趷趸趹趺趻趼趽趾趿跀跁跂跃跄跅跆跇跈跉跊跋跌跍跎跏跐跑跒跓跔跕跖跗跘跙跚跛跜距跞跟跠跡跢跣跤跥跦跧跨跩跪跫跬跭跮路跰跱跲跳跴践跶跷跸跹跺跻跼跽跾跿",
      "躀躁躂躃躄躅躆躇躈躉躊躋躌躍躎躏躐躑躒躓躔躕躖躗躘躙躚躛躜躝躞躟躠躡躢躣躤躥躦躧躨躩躪身躬躭躮躯躰躱躲躳躴躵躶躷躸躹躺躻躼躽躾躿軀軁軂軃軄軅軆軇軈軉車軋軌軍軎軏軐軑軒軓軔軕軖軗軘軙軚軛軜軝軞軟軠軡転軣軤軥軦軧軨軩軪軫軬軭軮軯軰軱軲軳軴軵軶軷軸軹軺軻軼軽軾軿",
      "辀辁辂较辄辅辆辇辈辉辊辋辌辍辎辏辐辑辒输辔辕辖辗辘辙辚辛辜辝辞辟辠辡辢辣辤辥辦辧辨辩辪辫辬辭辮辯辰辱農辳辴辵辶辷辸边辺辻込辽达辿迀迁迂迃迄迅迆过迈迉迊迋迌迍迎迏运近迒迓返迕迖迗还这迚进远违连迟迠迡迢迣迤迥迦迧迨迩迪迫迬迭迮迯述迱迲迳迴迵迶迷迸迹迺迻迼追迾迿",
      "邀邁邂邃還邅邆邇邈邉邊邋邌邍邎邏邐邑邒邓邔邕邖邗邘邙邚邛邜邝邞邟邠邡邢那邤邥邦邧邨邩邪邫邬邭邮邯邰邱邲邳邴邵邶邷邸邹邺邻邼邽邾邿郀郁郂郃郄郅郆郇郈郉郊郋郌郍郎郏郐郑郒郓郔郕郖郗郘郙郚郛郜郝郞郟郠郡郢郣郤郥郦郧部郩郪郫郬郭郮郯郰郱郲郳郴郵郶郷郸郹郺郻郼都郾郿",
      "醀醁醂醃醄醅醆醇醈醉醊醋醌醍醎醏醐醑醒醓醔醕醖醗醘醙醚醛醜醝醞醟醠醡醢醣醤醥醦醧醨醩醪醫醬醭醮醯醰醱醲醳醴醵醶醷醸醹醺醻醼醽醾醿釀釁釂釃釄釅釆采釈釉释釋里重野量釐金釒釓釔釕釖釗釘釙釚釛釜針釞釟釠釡釢釣釤釥釦釧釨釩釪釫釬釭釮釯釰釱釲釳釴釵釶釷釸釹釺釻釼釽釾釿",
      "銀銁銂銃銄銅銆銇銈銉銊銋銌銍銎銏銐銑銒銓銔銕銖銗銘銙銚銛銜銝銞銟銠銡銢銣銤銥銦銧銨銩銪銫銬銭銮銯銰銱銲銳銴銵銶銷銸銹銺銻銼銽銾銿鋀鋁鋂鋃鋄鋅鋆鋇鋈鋉鋊鋋鋌鋍鋎鋏鋐鋑鋒鋓鋔鋕鋖鋗鋘鋙鋚鋛鋜鋝鋞鋟鋠鋡鋢鋣鋤鋥鋦鋧鋨鋩鋪鋫鋬鋭鋮鋯鋰鋱鋲鋳鋴鋵鋶鋷鋸鋹鋺鋻鋼鋽鋾鋿",
      "鎀鎁鎂鎃鎄鎅鎆鎇鎈鎉鎊鎋鎌鎍鎎鎏鎐鎑鎒鎓鎔鎕鎖鎗鎘鎙鎚鎛鎜鎝鎞鎟鎠鎡鎢鎣鎤鎥鎦鎧鎨鎩鎪鎫鎬鎭鎮鎯鎰鎱鎲鎳鎴鎵鎶鎷鎸鎹鎺鎻鎼鎽鎾鎿鏀鏁鏂鏃鏄鏅鏆鏇鏈鏉鏊鏋鏌鏍鏎鏏鏐鏑鏒鏓鏔鏕鏖鏗鏘鏙鏚鏛鏜鏝鏞鏟鏠鏡鏢鏣鏤鏥鏦鏧鏨鏩鏪鏫鏬鏭鏮鏯鏰鏱鏲鏳鏴鏵鏶鏷鏸鏹鏺鏻鏼鏽鏾鏿",
      "钀钁钂钃钄钅钆钇针钉钊钋钌钍钎钏钐钑钒钓钔钕钖钗钘钙钚钛钜钝钞钟钠钡钢钣钤钥钦钧钨钩钪钫钬钭钮钯钰钱钲钳钴钵钶钷钸钹钺钻钼钽钾钿铀铁铂铃铄铅铆铇铈铉铊铋铌铍铎铏铐铑铒铓铔铕铖铗铘铙铚铛铜铝铞铟铠铡铢铣铤铥铦铧铨铩铪铫铬铭铮铯铰铱铲铳铴铵银铷铸铹铺铻铼铽链铿",
      "門閁閂閃閄閅閆閇閈閉閊開閌閍閎閏閐閑閒間閔閕閖閗閘閙閚閛閜閝閞閟閠閡関閣閤閥閦閧閨閩閪閫閬閭閮閯閰閱閲閳閴閵閶閷閸閹閺閻閼閽閾閿闀闁闂闃闄闅闆闇闈闉闊闋闌闍闎闏闐闑闒闓闔闕闖闗闘闙闚闛關闝闞闟闠闡闢闣闤闥闦闧门闩闪闫闬闭问闯闰闱闲闳间闵闶闷闸闹闺闻闼闽闾闿",
      "隀隁隂隃隄隅隆隇隈隉隊隋隌隍階随隐隑隒隓隔隕隖隗隘隙隚際障隝隞隟隠隡隢隣隤隥隦隧隨隩險隫隬隭隮隯隰隱隲隳隴隵隶隷隸隹隺隻隼隽难隿雀雁雂雃雄雅集雇雈雉雊雋雌雍雎雏雐雑雒雓雔雕雖雗雘雙雚雛雜雝雞雟雠雡離難雤雥雦雧雨雩雪雫雬雭雮雯雰雱雲雳雴雵零雷雸雹雺電雼雽雾雿",
      "鞀鞁鞂鞃鞄鞅鞆鞇鞈鞉鞊鞋鞌鞍鞎鞏鞐鞑鞒鞓鞔鞕鞖鞗鞘鞙鞚鞛鞜鞝鞞鞟鞠鞡鞢鞣鞤鞥鞦鞧鞨鞩鞪鞫鞬鞭鞮鞯鞰鞱鞲鞳鞴鞵鞶鞷鞸鞹鞺鞻鞼鞽鞾鞿韀韁韂韃韄韅韆韇韈韉韊韋韌韍韎韏韐韑韒韓韔韕韖韗韘韙韚韛韜韝韞韟韠韡韢韣韤韥韦韧韨韩韪韫韬韭韮韯韰韱韲音韴韵韶韷韸韹韺韻韼韽韾響",
      "颀颁颂颃预颅领颇颈颉颊颋颌颍颎颏颐频颒颓颔颕颖颗题颙颚颛颜额颞颟颠颡颢颣颤颥颦颧風颩颪颫颬颭颮颯颰颱颲颳颴颵颶颷颸颹颺颻颼颽颾颿飀飁飂飃飄飅飆飇飈飉飊飋飌飍风飏飐飑飒飓飔飕飖飗飘飙飚飛飜飝飞食飠飡飢飣飤飥飦飧飨飩飪飫飬飭飮飯飰飱飲飳飴飵飶飷飸飹飺飻飼飽飾飿",
      "馀馁馂馃馄馅馆馇馈馉馊馋馌馍馎馏馐馑馒馓馔馕首馗馘香馚馛馜馝馞馟馠馡馢馣馤馥馦馧馨馩馪馫馬馭馮馯馰馱馲馳馴馵馶馷馸馹馺馻馼馽馾馿駀駁駂駃駄駅駆駇駈駉駊駋駌駍駎駏駐駑駒駓駔駕駖駗駘駙駚駛駜駝駞駟駠駡駢駣駤駥駦駧駨駩駪駫駬駭駮駯駰駱駲駳駴駵駶駷駸駹駺駻駼駽駾駿",
      "骀骁骂骃骄骅骆骇骈骉骊骋验骍骎骏骐骑骒骓骔骕骖骗骘骙骚骛骜骝骞骟骠骡骢骣骤骥骦骧骨骩骪骫骬骭骮骯骰骱骲骳骴骵骶骷骸骹骺骻骼骽骾骿髀髁髂髃髄髅髆髇髈髉髊髋髌髍髎髏髐髑髒髓體髕髖髗高髙髚髛髜髝髞髟髠髡髢髣髤髥髦髧髨髩髪髫髬髭髮髯髰髱髲髳髴髵髶髷髸髹髺髻髼髽髾髿",
      "鮀鮁鮂鮃鮄鮅鮆鮇鮈鮉鮊鮋鮌鮍鮎鮏鮐鮑鮒鮓鮔鮕鮖鮗鮘鮙鮚鮛鮜鮝鮞鮟鮠鮡鮢鮣鮤鮥鮦鮧鮨鮩鮪鮫鮬鮭鮮鮯鮰鮱鮲鮳鮴鮵鮶鮷鮸鮹鮺鮻鮼鮽鮾鮿鯀鯁鯂鯃鯄鯅鯆鯇鯈鯉鯊鯋鯌鯍鯎鯏鯐鯑鯒鯓鯔鯕鯖鯗鯘鯙鯚鯛鯜鯝鯞鯟鯠鯡鯢鯣鯤鯥鯦鯧鯨鯩鯪鯫鯬鯭鯮鯯鯰鯱鯲鯳鯴鯵鯶鯷鯸鯹鯺鯻鯼鯽鯾鯿",
      "鲀鲁鲂鲃鲄鲅鲆鲇鲈鲉鲊鲋鲌鲍鲎鲏鲐鲑鲒鲓鲔鲕鲖鲗鲘鲙鲚鲛鲜鲝鲞鲟鲠鲡鲢鲣鲤鲥鲦鲧鲨鲩鲪鲫鲬鲭鲮鲯鲰鲱鲲鲳鲴鲵鲶鲷鲸鲹鲺鲻鲼鲽鲾鲿鳀鳁鳂鳃鳄鳅鳆鳇鳈鳉鳊鳋鳌鳍鳎鳏鳐鳑鳒鳓鳔鳕鳖鳗鳘鳙鳚鳛鳜鳝鳞鳟鳠鳡鳢鳣鳤鳥鳦鳧鳨鳩鳪鳫鳬鳭鳮鳯鳰鳱鳲鳳鳴鳵鳶鳷鳸鳹鳺鳻鳼鳽鳾鳿",
      "鶀鶁鶂鶃鶄鶅鶆鶇鶈鶉鶊鶋鶌鶍鶎鶏鶐鶑鶒鶓鶔鶕鶖鶗鶘鶙鶚鶛鶜鶝鶞鶟鶠鶡鶢鶣鶤鶥鶦鶧鶨鶩鶪鶫鶬鶭鶮鶯鶰鶱鶲鶳鶴鶵鶶鶷鶸鶹鶺鶻鶼鶽鶾鶿鷀鷁鷂鷃鷄鷅鷆鷇鷈鷉鷊鷋鷌鷍鷎鷏鷐鷑鷒鷓鷔鷕鷖鷗鷘鷙鷚鷛鷜鷝鷞鷟鷠鷡鷢鷣鷤鷥鷦鷧鷨鷩鷪鷫鷬鷭鷮鷯鷰鷱鷲鷳鷴鷵鷶鷷鷸鷹鷺鷻鷼鷽鷾鷿",
      "麀麁麂麃麄麅麆麇麈麉麊麋麌麍麎麏麐麑麒麓麔麕麖麗麘麙麚麛麜麝麞麟麠麡麢麣麤麥麦麧麨麩麪麫麬麭麮麯麰麱麲麳麴麵麶麷麸麹麺麻麼麽麾麿黀黁黂黃黄黅黆黇黈黉黊黋黌黍黎黏黐黑黒黓黔黕黖黗默黙黚黛黜黝點黟黠黡黢黣黤黥黦黧黨黩黪黫黬黭黮黯黰黱黲黳黴黵黶黷黸黹黺黻黼黽黾黿",
      "龀龁龂龃龄龅龆龇龈龉龊龋龌龍龎龏龐龑龒龓龔龕龖龗龘龙龚龛龜龝龞龟龠龡龢龣龤龥龦龧龨龩龪龫龬龭龮龯龰龱龲龳龴龵龶龷龸龹龺龻龼龽龾龿鿀鿁鿂鿃鿄鿅鿆鿇鿈鿉鿊鿋鿌鿍鿎鿏鿐鿑鿒鿓鿔鿕鿖鿗鿘鿙鿚鿛鿜鿝鿞鿟鿠鿡鿢鿣鿤鿥鿦鿧鿨鿩鿪鿫鿬鿭鿮鿯鿰鿱鿲鿳鿴鿵鿶鿷鿸鿹鿺鿻鿼鿽鿾鿿",
      "ꂀꂁꂂꂃꂄꂅꂆꂇꂈꂉꂊꂋꂌꂍꂎꂏꂐꂑꂒꂓꂔꂕꂖꂗꂘꂙꂚꂛꂜꂝꂞꂟꂠꂡꂢꂣꂤꂥꂦꂧꂨꂩꂪꂫꂬꂭꂮꂯꂰꂱꂲꂳꂴꂵꂶꂷꂸꂹꂺꂻꂼꂽꂾꂿꃀꃁꃂꃃꃄꃅꃆꃇꃈꃉꃊꃋꃌꃍꃎꃏꃐꃑꃒꃓꃔꃕꃖꃗꃘꃙꃚꃛꃜꃝꃞꃟꃠꃡꃢꃣꃤꃥꃦꃧꃨꃩꃪꃫꃬꃭꃮꃯꃰꃱꃲꃳꃴꃵꃶꃷꃸꃹꃺꃻꃼꃽꃾꃿ",
      "ꆀꆁꆂꆃꆄꆅꆆꆇꆈꆉꆊꆋꆌꆍꆎꆏꆐꆑꆒꆓꆔꆕꆖꆗꆘꆙꆚꆛꆜꆝꆞꆟꆠꆡꆢꆣꆤꆥꆦꆧꆨꆩꆪꆫꆬꆭꆮꆯꆰꆱꆲꆳꆴꆵꆶꆷꆸꆹꆺꆻꆼꆽꆾꆿꇀꇁꇂꇃꇄꇅꇆꇇꇈꇉꇊꇋꇌꇍꇎꇏꇐꇑꇒꇓꇔꇕꇖꇗꇘꇙꇚꇛꇜꇝꇞꇟꇠꇡꇢꇣꇤꇥꇦꇧꇨꇩꇪꇫꇬꇭꇮꇯꇰꇱꇲꇳꇴꇵꇶꇷꇸꇹꇺꇻꇼꇽꇾꇿ",
      "ꊀꊁꊂꊃꊄꊅꊆꊇꊈꊉꊊꊋꊌꊍꊎꊏꊐꊑꊒꊓꊔꊕꊖꊗꊘꊙꊚꊛꊜꊝꊞꊟꊠꊡꊢꊣꊤꊥꊦꊧꊨꊩꊪꊫꊬꊭꊮꊯꊰꊱꊲꊳꊴꊵꊶꊷꊸꊹꊺꊻꊼꊽꊾꊿꋀꋁꋂꋃꋄꋅꋆꋇꋈꋉꋊꋋꋌꋍꋎꋏꋐꋑꋒꋓꋔꋕꋖꋗꋘꋙꋚꋛꋜꋝꋞꋟꋠꋡꋢꋣꋤꋥꋦꋧꋨꋩꋪꋫꋬꋭꋮꋯꋰꋱꋲꋳꋴꋵꋶꋷꋸꋹꋺꋻꋼꋽꋾꋿ",
      "ꎀꎁꎂꎃꎄꎅꎆꎇꎈꎉꎊꎋꎌꎍꎎꎏꎐꎑꎒꎓꎔꎕꎖꎗꎘꎙꎚꎛꎜꎝꎞꎟꎠꎡꎢꎣꎤꎥꎦꎧꎨꎩꎪꎫꎬꎭꎮꎯꎰꎱꎲꎳꎴꎵꎶꎷꎸꎹꎺꎻꎼꎽꎾꎿꏀꏁꏂꏃꏄꏅꏆꏇꏈꏉꏊꏋꏌꏍꏎꏏꏐꏑꏒꏓꏔꏕꏖꏗꏘꏙꏚꏛꏜꏝꏞꏟꏠꏡꏢꏣꏤꏥꏦꏧꏨꏩꏪꏫꏬꏭꏮꏯꏰꏱꏲꏳꏴꏵꏶꏷꏸꏹꏺꏻꏼꏽꏾꏿ",
      "ꒀꒁꒂꒃꒄꒅꒆꒇꒈꒉꒊꒋꒌ꒍꒎꒏꒐꒑꒒꒓꒔꒕꒖꒗꒘꒙꒚꒛꒜꒝꒞꒟꒠꒡꒢꒣꒤꒥꒦꒧꒨꒩꒪꒫꒬꒭꒮꒯꒰꒱꒲꒳꒴꒵꒶꒷꒸꒹꒺꒻꒼꒽꒾꒿꓀꓁꓂꓃꓄꓅꓆꓇꓈꓉꓊꓋꓌꓍꓎꓏ꓐꓑꓒꓓꓔꓕꓖꓗꓘꓙꓚꓛꓜꓝꓞꓟꓠꓡꓢꓣꓤꓥꓦꓧꓨꓩꓪꓫꓬꓭꓮꓯꓰꓱꓲꓳꓴꓵꓶꓷꓸꓹꓺꓻꓼꓽ꓾꓿",
      "ꖀꖁꖂꖃꖄꖅꖆꖇꖈꖉꖊꖋꖌꖍꖎꖏꖐꖑꖒꖓꖔꖕꖖꖗꖘꖙꖚꖛꖜꖝꖞꖟꖠꖡꖢꖣꖤꖥꖦꖧꖨꖩꖪꖫꖬꖭꖮꖯꖰꖱꖲꖳꖴꖵꖶꖷꖸꖹꖺꖻꖼꖽꖾꖿꗀꗁꗂꗃꗄꗅꗆꗇꗈꗉꗊꗋꗌꗍꗎꗏꗐꗑꗒꗓꗔꗕꗖꗗꗘꗙꗚꗛꗜꗝꗞꗟꗠꗡꗢꗣꗤꗥꗦꗧꗨꗩꗪꗫꗬꗭꗮꗯꗰꗱꗲꗳꗴꗵꗶꗷꗸꗹꗺꗻꗼꗽꗾꗿ",
      "ꚀꚁꚂꚃꚄꚅꚆꚇꚈꚉꚊꚋꚌꚍꚎꚏꚐꚑꚒꚓꚔꚕꚖꚗꚘꚙꚚꚛꚜꚝꚞꚟꚠꚡꚢꚣꚤꚥꚦꚧꚨꚩꚪꚫꚬꚭꚮꚯꚰꚱꚲꚳꚴꚵꚶꚷꚸꚹꚺꚻꚼꚽꚾꚿꛀꛁꛂꛃꛄꛅꛆꛇꛈꛉꛊꛋꛌꛍꛎꛏꛐꛑꛒꛓꛔꛕꛖꛗꛘꛙꛚꛛꛜꛝꛞꛟꛠꛡꛢꛣꛤꛥꛦꛧꛨꛩꛪꛫꛬꛭꛮꛯ꛰꛱꛲꛳꛴꛵꛶꛷꛸꛹꛺꛻꛼꛽꛾꛿",
      "ꞀꞁꞂꞃꞄꞅꞆꞇꞈ꞉꞊ꞋꞌꞍꞎꞏꞐꞑꞒꞓꞔꞕꞖꞗꞘꞙꞚꞛꞜꞝꞞꞟꞠꞡꞢꞣꞤꞥꞦꞧꞨꞩꞪꞫꞬꞭꞮꞯꞰꞱꞲꞳꞴꞵꞶꞷꞸꞹꞺꞻꞼꞽꞾꞿꟀꟁꟂꟃꟄꟅꟆꟇꟈꟉꟊꟋꟌꟍ꟎꟏Ꟑꟑ꟒ꟓ꟔ꟕꟖꟗꟘꟙꟚꟛꟜ꟝꟞꟟꟠꟡꟢꟣꟤꟥꟦꟧꟨꟩꟪꟫꟬꟭꟮꟯꟰꟱ꟲꟳꟴꟵꟶꟷꟸꟹꟺꟻꟼꟽꟾꟿ",
      "ꢀꢁꢂꢃꢄꢅꢆꢇꢈꢉꢊꢋꢌꢍꢎꢏꢐꢑꢒꢓꢔꢕꢖꢗꢘꢙꢚꢛꢜꢝꢞꢟꢠꢡꢢꢣꢤꢥꢦꢧꢨꢩꢪꢫꢬꢭꢮꢯꢰꢱꢲꢳꢴꢵꢶꢷꢸꢹꢺꢻꢼꢽꢾꢿꣀꣁꣂꣃ꣄ꣅ꣆꣇꣈꣉꣊꣋꣌꣍꣎꣏꣐꣑꣒꣓꣔꣕꣖꣗꣘꣙꣚꣛꣜꣝꣞꣟꣠꣡꣢꣣꣤꣥꣦꣧꣨꣩꣪꣫꣬꣭꣮꣯꣰꣱ꣲꣳꣴꣵꣶꣷ꣸꣹꣺ꣻ꣼ꣽꣾꣿ",
      "ꦀꦁꦂꦃꦄꦅꦆꦇꦈꦉꦊꦋꦌꦍꦎꦏꦐꦑꦒꦓꦔꦕꦖꦗꦘꦙꦚꦛꦜꦝꦞꦟꦠꦡꦢꦣꦤꦥꦦꦧꦨꦩꦪꦫꦬꦭꦮꦯꦰꦱꦲ꦳ꦴꦵꦶꦷꦸꦹꦺꦻꦼꦽꦾꦿ꧀꧁꧂꧃꧄꧅꧆꧇꧈꧉꧊꧋꧌꧍꧎ꧏ꧐꧑꧒꧓꧔꧕꧖꧗꧘꧙꧚꧛꧜꧝꧞꧟ꧠꧡꧢꧣꧤꧥꧦꧧꧨꧩꧪꧫꧬꧭꧮꧯ꧰꧱꧲꧳꧴꧵꧶꧷꧸꧹ꧺꧻꧼꧽꧾ꧿",
      "ꪀꪁꪂꪃꪄꪅꪆꪇꪈꪉꪊꪋꪌꪍꪎꪏꪐꪑꪒꪓꪔꪕꪖꪗꪘꪙꪚꪛꪜꪝꪞꪟꪠꪡꪢꪣꪤꪥꪦꪧꪨꪩꪪꪫꪬꪭꪮꪯꪰꪱꪴꪲꪳꪵꪶꪷꪸꪹꪺꪻꪼꪽꪾ꪿ꫀ꫁ꫂ꫃꫄꫅꫆꫇꫈꫉꫊꫋꫌꫍꫎꫏꫐꫑꫒꫓꫔꫕꫖꫗꫘꫙꫚ꫛꫜꫝ꫞꫟ꫠꫡꫢꫣꫤꫥꫦꫧꫨꫩꫪꫫꫬꫭꫮꫯ꫰꫱ꫲꫳꫴꫵ꫶꫷꫸꫹꫺꫻꫼꫽꫾꫿",
      "ꮀꮁꮂꮃꮄꮅꮆꮇꮈꮉꮊꮋꮌꮍꮎꮏꮐꮑꮒꮓꮔꮕꮖꮗꮘꮙꮚꮛꮜꮝꮞꮟꮠꮡꮢꮣꮤꮥꮦꮧꮨꮩꮪꮫꮬꮭꮮꮯꮰꮱꮲꮳꮴꮵꮶꮷꮸꮹꮺꮻꮼꮽꮾꮿꯀꯁꯂꯃꯄꯅꯆꯇꯈꯉꯊꯋꯌꯍꯎꯏꯐꯑꯒꯓꯔꯕꯖꯗꯘꯙꯚꯛꯜꯝꯞꯟꯠꯡꯢꯣꯤꯥꯦꯧꯨꯩꯪ꯫꯬꯭꯮꯯꯰꯱꯲꯳꯴꯵꯶꯷꯸꯹꯺꯻꯼꯽꯾꯿",
      "검겁겂것겄겅겆겇겈겉겊겋게겍겎겏겐겑겒겓겔겕겖겗겘겙겚겛겜겝겞겟겠겡겢겣겤겥겦겧겨격겪겫견겭겮겯결겱겲겳겴겵겶겷겸겹겺겻겼경겾겿곀곁곂곃계곅곆곇곈곉곊곋곌곍곎곏곐곑곒곓곔곕곖곗곘곙곚곛곜곝곞곟고곡곢곣곤곥곦곧골곩곪곫곬곭곮곯곰곱곲곳곴공곶곷곸곹곺곻과곽곾곿",
      "궀궁궂궃궄궅궆궇궈궉궊궋권궍궎궏궐궑궒궓궔궕궖궗궘궙궚궛궜궝궞궟궠궡궢궣궤궥궦궧궨궩궪궫궬궭궮궯궰궱궲궳궴궵궶궷궸궹궺궻궼궽궾궿귀귁귂귃귄귅귆귇귈귉귊귋귌귍귎귏귐귑귒귓귔귕귖귗귘귙귚귛규귝귞귟균귡귢귣귤귥귦귧귨귩귪귫귬귭귮귯귰귱귲귳귴귵귶귷그극귺귻근귽귾귿",
      "꺀꺁꺂꺃꺄꺅꺆꺇꺈꺉꺊꺋꺌꺍꺎꺏꺐꺑꺒꺓꺔꺕꺖꺗꺘꺙꺚꺛꺜꺝꺞꺟꺠꺡꺢꺣꺤꺥꺦꺧꺨꺩꺪꺫꺬꺭꺮꺯꺰꺱꺲꺳꺴꺵꺶꺷꺸꺹꺺꺻꺼꺽꺾꺿껀껁껂껃껄껅껆껇껈껉껊껋껌껍껎껏껐껑껒껓껔껕껖껗께껙껚껛껜껝껞껟껠껡껢껣껤껥껦껧껨껩껪껫껬껭껮껯껰껱껲껳껴껵껶껷껸껹껺껻껼껽껾껿",
      "꾀꾁꾂꾃꾄꾅꾆꾇꾈꾉꾊꾋꾌꾍꾎꾏꾐꾑꾒꾓꾔꾕꾖꾗꾘꾙꾚꾛꾜꾝꾞꾟꾠꾡꾢꾣꾤꾥꾦꾧꾨꾩꾪꾫꾬꾭꾮꾯꾰꾱꾲꾳꾴꾵꾶꾷꾸꾹꾺꾻꾼꾽꾾꾿꿀꿁꿂꿃꿄꿅꿆꿇꿈꿉꿊꿋꿌꿍꿎꿏꿐꿑꿒꿓꿔꿕꿖꿗꿘꿙꿚꿛꿜꿝꿞꿟꿠꿡꿢꿣꿤꿥꿦꿧꿨꿩꿪꿫꿬꿭꿮꿯꿰꿱꿲꿳꿴꿵꿶꿷꿸꿹꿺꿻꿼꿽꿾꿿",
      "낀낁낂낃낄낅낆낇낈낉낊낋낌낍낎낏낐낑낒낓낔낕낖낗나낙낚낛난낝낞낟날낡낢낣낤낥낦낧남납낪낫났낭낮낯낰낱낲낳내낵낶낷낸낹낺낻낼낽낾낿냀냁냂냃냄냅냆냇냈냉냊냋냌냍냎냏냐냑냒냓냔냕냖냗냘냙냚냛냜냝냞냟냠냡냢냣냤냥냦냧냨냩냪냫냬냭냮냯냰냱냲냳냴냵냶냷냸냹냺냻냼냽냾냿",
      "놀놁놂놃놄놅놆놇놈놉놊놋놌농놎놏놐놑높놓놔놕놖놗놘놙놚놛놜놝놞놟놠놡놢놣놤놥놦놧놨놩놪놫놬놭놮놯놰놱놲놳놴놵놶놷놸놹놺놻놼놽놾놿뇀뇁뇂뇃뇄뇅뇆뇇뇈뇉뇊뇋뇌뇍뇎뇏뇐뇑뇒뇓뇔뇕뇖뇗뇘뇙뇚뇛뇜뇝뇞뇟뇠뇡뇢뇣뇤뇥뇦뇧뇨뇩뇪뇫뇬뇭뇮뇯뇰뇱뇲뇳뇴뇵뇶뇷뇸뇹뇺뇻뇼뇽뇾뇿",
      "늀늁늂늃늄늅늆늇늈늉늊늋늌늍늎늏느늑늒늓는늕늖늗늘늙늚늛늜늝늞늟늠늡늢늣늤능늦늧늨늩늪늫늬늭늮늯늰늱늲늳늴늵늶늷늸늹늺늻늼늽늾늿닀닁닂닃닄닅닆닇니닉닊닋닌닍닎닏닐닑닒닓닔닕닖닗님닙닚닛닜닝닞닟닠닡닢닣다닥닦닧단닩닪닫달닭닮닯닰닱닲닳담답닶닷닸당닺닻닼닽닾닿",
      "뎀뎁뎂뎃뎄뎅뎆뎇뎈뎉뎊뎋뎌뎍뎎뎏뎐뎑뎒뎓뎔뎕뎖뎗뎘뎙뎚뎛뎜뎝뎞뎟뎠뎡뎢뎣뎤뎥뎦뎧뎨뎩뎪뎫뎬뎭뎮뎯뎰뎱뎲뎳뎴뎵뎶뎷뎸뎹뎺뎻뎼뎽뎾뎿돀돁돂돃도독돆돇돈돉돊돋돌돍돎돏돐돑돒돓돔돕돖돗돘동돚돛돜돝돞돟돠돡돢돣돤돥돦돧돨돩돪돫돬돭돮돯돰돱돲돳돴돵돶돷돸돹돺돻돼돽돾돿",
      "뒀뒁뒂뒃뒄뒅뒆뒇뒈뒉뒊뒋뒌뒍뒎뒏뒐뒑뒒뒓뒔뒕뒖뒗뒘뒙뒚뒛뒜뒝뒞뒟뒠뒡뒢뒣뒤뒥뒦뒧뒨뒩뒪뒫뒬뒭뒮뒯뒰뒱뒲뒳뒴뒵뒶뒷뒸뒹뒺뒻뒼뒽뒾뒿듀듁듂듃듄듅듆듇듈듉듊듋듌듍듎듏듐듑듒듓듔듕듖듗듘듙듚듛드득듞듟든듡듢듣들듥듦듧듨듩듪듫듬듭듮듯듰등듲듳듴듵듶듷듸듹듺듻듼듽듾듿",
      "떀떁떂떃떄떅떆떇떈떉떊떋떌떍떎떏떐떑떒떓떔떕떖떗떘떙떚떛떜떝떞떟떠떡떢떣떤떥떦떧떨떩떪떫떬떭떮떯떰떱떲떳떴떵떶떷떸떹떺떻떼떽떾떿뗀뗁뗂뗃뗄뗅뗆뗇뗈뗉뗊뗋뗌뗍뗎뗏뗐뗑뗒뗓뗔뗕뗖뗗뗘뗙뗚뗛뗜뗝뗞뗟뗠뗡뗢뗣뗤뗥뗦뗧뗨뗩뗪뗫뗬뗭뗮뗯뗰뗱뗲뗳뗴뗵뗶뗷뗸뗹뗺뗻뗼뗽뗾뗿",
      "뚀뚁뚂뚃뚄뚅뚆뚇뚈뚉뚊뚋뚌뚍뚎뚏뚐뚑뚒뚓뚔뚕뚖뚗뚘뚙뚚뚛뚜뚝뚞뚟뚠뚡뚢뚣뚤뚥뚦뚧뚨뚩뚪뚫뚬뚭뚮뚯뚰뚱뚲뚳뚴뚵뚶뚷뚸뚹뚺뚻뚼뚽뚾뚿뛀뛁뛂뛃뛄뛅뛆뛇뛈뛉뛊뛋뛌뛍뛎뛏뛐뛑뛒뛓뛔뛕뛖뛗뛘뛙뛚뛛뛜뛝뛞뛟뛠뛡뛢뛣뛤뛥뛦뛧뛨뛩뛪뛫뛬뛭뛮뛯뛰뛱뛲뛳뛴뛵뛶뛷뛸뛹뛺뛻뛼뛽뛾뛿",
      "란랁랂랃랄랅랆랇랈랉랊랋람랍랎랏랐랑랒랓랔랕랖랗래랙랚랛랜랝랞랟랠랡랢랣랤랥랦랧램랩랪랫랬랭랮랯랰랱랲랳랴략랶랷랸랹랺랻랼랽랾랿럀럁럂럃럄럅럆럇럈량럊럋럌럍럎럏럐럑럒럓럔럕럖럗럘럙럚럛럜럝럞럟럠럡럢럣럤럥럦럧럨럩럪럫러럭럮럯런럱럲럳럴럵럶럷럸럹럺럻럼럽럾럿",
      "뢀뢁뢂뢃뢄뢅뢆뢇뢈뢉뢊뢋뢌뢍뢎뢏뢐뢑뢒뢓뢔뢕뢖뢗뢘뢙뢚뢛뢜뢝뢞뢟뢠뢡뢢뢣뢤뢥뢦뢧뢨뢩뢪뢫뢬뢭뢮뢯뢰뢱뢲뢳뢴뢵뢶뢷뢸뢹뢺뢻뢼뢽뢾뢿룀룁룂룃룄룅룆룇룈룉룊룋료룍룎룏룐룑룒룓룔룕룖룗룘룙룚룛룜룝룞룟룠룡룢룣룤룥룦룧루룩룪룫룬룭룮룯룰룱룲룳룴룵룶룷룸룹룺룻룼룽룾룿",
      "릀릁릂릃름릅릆릇릈릉릊릋릌릍릎릏릐릑릒릓릔릕릖릗릘릙릚릛릜릝릞릟릠릡릢릣릤릥릦릧릨릩릪릫리릭릮릯린릱릲릳릴릵릶릷릸릹릺릻림립릾릿맀링맂맃맄맅맆맇마막맊맋만맍많맏말맑맒맓맔맕맖맗맘맙맚맛맜망맞맟맠맡맢맣매맥맦맧맨맩맪맫맬맭맮맯맰맱맲맳맴맵맶맷맸맹맺맻맼맽맾맿",
      "몀몁몂몃몄명몆몇몈몉몊몋몌몍몎몏몐몑몒몓몔몕몖몗몘몙몚몛몜몝몞몟몠몡몢몣몤몥몦몧모목몪몫몬몭몮몯몰몱몲몳몴몵몶몷몸몹몺못몼몽몾몿뫀뫁뫂뫃뫄뫅뫆뫇뫈뫉뫊뫋뫌뫍뫎뫏뫐뫑뫒뫓뫔뫕뫖뫗뫘뫙뫚뫛뫜뫝뫞뫟뫠뫡뫢뫣뫤뫥뫦뫧뫨뫩뫪뫫뫬뫭뫮뫯뫰뫱뫲뫳뫴뫵뫶뫷뫸뫹뫺뫻뫼뫽뫾뫿",
      "뮀뮁뮂뮃뮄뮅뮆뮇뮈뮉뮊뮋뮌뮍뮎뮏뮐뮑뮒뮓뮔뮕뮖뮗뮘뮙뮚뮛뮜뮝뮞뮟뮠뮡뮢뮣뮤뮥뮦뮧뮨뮩뮪뮫뮬뮭뮮뮯뮰뮱뮲뮳뮴뮵뮶뮷뮸뮹뮺뮻뮼뮽뮾뮿므믁믂믃믄믅믆믇믈믉믊믋믌믍믎믏믐믑믒믓믔믕믖믗믘믙믚믛믜믝믞믟믠믡믢믣믤믥믦믧믨믩믪믫믬믭믮믯믰믱믲믳믴믵믶믷미믹믺믻민믽믾믿",
      "벀벁벂벃버벅벆벇번벉벊벋벌벍벎벏벐벑벒벓범법벖벗벘벙벚벛벜벝벞벟베벡벢벣벤벥벦벧벨벩벪벫벬벭벮벯벰벱벲벳벴벵벶벷벸벹벺벻벼벽벾벿변볁볂볃별볅볆볇볈볉볊볋볌볍볎볏볐병볒볓볔볕볖볗볘볙볚볛볜볝볞볟볠볡볢볣볤볥볦볧볨볩볪볫볬볭볮볯볰볱볲볳보복볶볷본볹볺볻볼볽볾볿",
      "부북붂붃분붅붆붇불붉붊붋붌붍붎붏붐붑붒붓붔붕붖붗붘붙붚붛붜붝붞붟붠붡붢붣붤붥붦붧붨붩붪붫붬붭붮붯붰붱붲붳붴붵붶붷붸붹붺붻붼붽붾붿뷀뷁뷂뷃뷄뷅뷆뷇뷈뷉뷊뷋뷌뷍뷎뷏뷐뷑뷒뷓뷔뷕뷖뷗뷘뷙뷚뷛뷜뷝뷞뷟뷠뷡뷢뷣뷤뷥뷦뷧뷨뷩뷪뷫뷬뷭뷮뷯뷰뷱뷲뷳뷴뷵뷶뷷뷸뷹뷺뷻뷼뷽뷾뷿",
      "뺀뺁뺂뺃뺄뺅뺆뺇뺈뺉뺊뺋뺌뺍뺎뺏뺐뺑뺒뺓뺔뺕뺖뺗뺘뺙뺚뺛뺜뺝뺞뺟뺠뺡뺢뺣뺤뺥뺦뺧뺨뺩뺪뺫뺬뺭뺮뺯뺰뺱뺲뺳뺴뺵뺶뺷뺸뺹뺺뺻뺼뺽뺾뺿뻀뻁뻂뻃뻄뻅뻆뻇뻈뻉뻊뻋뻌뻍뻎뻏뻐뻑뻒뻓뻔뻕뻖뻗뻘뻙뻚뻛뻜뻝뻞뻟뻠뻡뻢뻣뻤뻥뻦뻧뻨뻩뻪뻫뻬뻭뻮뻯뻰뻱뻲뻳뻴뻵뻶뻷뻸뻹뻺뻻뻼뻽뻾뻿",
      "뾀뾁뾂뾃뾄뾅뾆뾇뾈뾉뾊뾋뾌뾍뾎뾏뾐뾑뾒뾓뾔뾕뾖뾗뾘뾙뾚뾛뾜뾝뾞뾟뾠뾡뾢뾣뾤뾥뾦뾧뾨뾩뾪뾫뾬뾭뾮뾯뾰뾱뾲뾳뾴뾵뾶뾷뾸뾹뾺뾻뾼뾽뾾뾿뿀뿁뿂뿃뿄뿅뿆뿇뿈뿉뿊뿋뿌뿍뿎뿏뿐뿑뿒뿓뿔뿕뿖뿗뿘뿙뿚뿛뿜뿝뿞뿟뿠뿡뿢뿣뿤뿥뿦뿧뿨뿩뿪뿫뿬뿭뿮뿯뿰뿱뿲뿳뿴뿵뿶뿷뿸뿹뿺뿻뿼뿽뿾뿿",
      "삀삁삂삃삄삅삆삇삈삉삊삋삌삍삎삏삐삑삒삓삔삕삖삗삘삙삚삛삜삝삞삟삠삡삢삣삤삥삦삧삨삩삪삫사삭삮삯산삱삲삳살삵삶삷삸삹삺삻삼삽삾삿샀상샂샃샄샅샆샇새색샊샋샌샍샎샏샐샑샒샓샔샕샖샗샘샙샚샛샜생샞샟샠샡샢샣샤샥샦샧샨샩샪샫샬샭샮샯샰샱샲샳샴샵샶샷샸샹샺샻샼샽샾샿",
      "솀솁솂솃솄솅솆솇솈솉솊솋소속솎솏손솑솒솓솔솕솖솗솘솙솚솛솜솝솞솟솠송솢솣솤솥솦솧솨솩솪솫솬솭솮솯솰솱솲솳솴솵솶솷솸솹솺솻솼솽솾솿쇀쇁쇂쇃쇄쇅쇆쇇쇈쇉쇊쇋쇌쇍쇎쇏쇐쇑쇒쇓쇔쇕쇖쇗쇘쇙쇚쇛쇜쇝쇞쇟쇠쇡쇢쇣쇤쇥쇦쇧쇨쇩쇪쇫쇬쇭쇮쇯쇰쇱쇲쇳쇴쇵쇶쇷쇸쇹쇺쇻쇼쇽쇾쇿",
      "슀슁슂슃슄슅슆슇슈슉슊슋슌슍슎슏슐슑슒슓슔슕슖슗슘슙슚슛슜슝슞슟슠슡슢슣스슥슦슧슨슩슪슫슬슭슮슯슰슱슲슳슴습슶슷슸승슺슻슼슽슾슿싀싁싂싃싄싅싆싇싈싉싊싋싌싍싎싏싐싑싒싓싔싕싖싗싘싙싚싛시식싞싟신싡싢싣실싥싦싧싨싩싪싫심십싮싯싰싱싲싳싴싵싶싷싸싹싺싻싼싽싾싿",
      "쎀쎁쎂쎃쎄쎅쎆쎇쎈쎉쎊쎋쎌쎍쎎쎏쎐쎑쎒쎓쎔쎕쎖쎗쎘쎙쎚쎛쎜쎝쎞쎟쎠쎡쎢쎣쎤쎥쎦쎧쎨쎩쎪쎫쎬쎭쎮쎯쎰쎱쎲쎳쎴쎵쎶쎷쎸쎹쎺쎻쎼쎽쎾쎿쏀쏁쏂쏃쏄쏅쏆쏇쏈쏉쏊쏋쏌쏍쏎쏏쏐쏑쏒쏓쏔쏕쏖쏗쏘쏙쏚쏛쏜쏝쏞쏟쏠쏡쏢쏣쏤쏥쏦쏧쏨쏩쏪쏫쏬쏭쏮쏯쏰쏱쏲쏳쏴쏵쏶쏷쏸쏹쏺쏻쏼쏽쏾쏿",
      "쒀쒁쒂쒃쒄쒅쒆쒇쒈쒉쒊쒋쒌쒍쒎쒏쒐쒑쒒쒓쒔쒕쒖쒗쒘쒙쒚쒛쒜쒝쒞쒟쒠쒡쒢쒣쒤쒥쒦쒧쒨쒩쒪쒫쒬쒭쒮쒯쒰쒱쒲쒳쒴쒵쒶쒷쒸쒹쒺쒻쒼쒽쒾쒿쓀쓁쓂쓃쓄쓅쓆쓇쓈쓉쓊쓋쓌쓍쓎쓏쓐쓑쓒쓓쓔쓕쓖쓗쓘쓙쓚쓛쓜쓝쓞쓟쓠쓡쓢쓣쓤쓥쓦쓧쓨쓩쓪쓫쓬쓭쓮쓯쓰쓱쓲쓳쓴쓵쓶쓷쓸쓹쓺쓻쓼쓽쓾쓿",
      "얀얁얂얃얄얅얆얇얈얉얊얋얌얍얎얏얐양얒얓얔얕얖얗얘얙얚얛얜얝얞얟얠얡얢얣얤얥얦얧얨얩얪얫얬얭얮얯얰얱얲얳어억얶얷언얹얺얻얼얽얾얿엀엁엂엃엄업없엇었엉엊엋엌엍엎엏에엑엒엓엔엕엖엗엘엙엚엛엜엝엞엟엠엡엢엣엤엥엦엧엨엩엪엫여역엮엯연엱엲엳열엵엶엷엸엹엺엻염엽엾엿",
      "욀욁욂욃욄욅욆욇욈욉욊욋욌욍욎욏욐욑욒욓요욕욖욗욘욙욚욛욜욝욞욟욠욡욢욣욤욥욦욧욨용욪욫욬욭욮욯우욱욲욳운욵욶욷울욹욺욻욼욽욾욿움웁웂웃웄웅웆웇웈웉웊웋워웍웎웏원웑웒웓월웕웖웗웘웙웚웛웜웝웞웟웠웡웢웣웤웥웦웧웨웩웪웫웬웭웮웯웰웱웲웳웴웵웶웷웸웹웺웻웼웽웾웿",
      "잀잁잂잃임입잆잇있잉잊잋잌잍잎잏자작잒잓잔잕잖잗잘잙잚잛잜잝잞잟잠잡잢잣잤장잦잧잨잩잪잫재잭잮잯잰잱잲잳잴잵잶잷잸잹잺잻잼잽잾잿쟀쟁쟂쟃쟄쟅쟆쟇쟈쟉쟊쟋쟌쟍쟎쟏쟐쟑쟒쟓쟔쟕쟖쟗쟘쟙쟚쟛쟜쟝쟞쟟쟠쟡쟢쟣쟤쟥쟦쟧쟨쟩쟪쟫쟬쟭쟮쟯쟰쟱쟲쟳쟴쟵쟶쟷쟸쟹쟺쟻쟼쟽쟾쟿",
      "좀좁좂좃좄종좆좇좈좉좊좋좌좍좎좏좐좑좒좓좔좕좖좗좘좙좚좛좜좝좞좟좠좡좢좣좤좥좦좧좨좩좪좫좬좭좮좯좰좱좲좳좴좵좶좷좸좹좺좻좼좽좾좿죀죁죂죃죄죅죆죇죈죉죊죋죌죍죎죏죐죑죒죓죔죕죖죗죘죙죚죛죜죝죞죟죠죡죢죣죤죥죦죧죨죩죪죫죬죭죮죯죰죱죲죳죴죵죶죷죸죹죺죻주죽죾죿",
      "즀즁즂즃즄즅즆즇즈즉즊즋즌즍즎즏즐즑즒즓즔즕즖즗즘즙즚즛즜증즞즟즠즡즢즣즤즥즦즧즨즩즪즫즬즭즮즯즰즱즲즳즴즵즶즷즸즹즺즻즼즽즾즿지직짂짃진짅짆짇질짉짊짋짌짍짎짏짐집짒짓짔징짖짗짘짙짚짛짜짝짞짟짠짡짢짣짤짥짦짧짨짩짪짫짬짭짮짯짰짱짲짳짴짵짶짷째짹짺짻짼짽짾짿",
      "쪀쪁쪂쪃쪄쪅쪆쪇쪈쪉쪊쪋쪌쪍쪎쪏쪐쪑쪒쪓쪔쪕쪖쪗쪘쪙쪚쪛쪜쪝쪞쪟쪠쪡쪢쪣쪤쪥쪦쪧쪨쪩쪪쪫쪬쪭쪮쪯쪰쪱쪲쪳쪴쪵쪶쪷쪸쪹쪺쪻쪼쪽쪾쪿쫀쫁쫂쫃쫄쫅쫆쫇쫈쫉쫊쫋쫌쫍쫎쫏쫐쫑쫒쫓쫔쫕쫖쫗쫘쫙쫚쫛쫜쫝쫞쫟쫠쫡쫢쫣쫤쫥쫦쫧쫨쫩쫪쫫쫬쫭쫮쫯쫰쫱쫲쫳쫴쫵쫶쫷쫸쫹쫺쫻쫼쫽쫾쫿",
      "쮀쮁쮂쮃쮄쮅쮆쮇쮈쮉쮊쮋쮌쮍쮎쮏쮐쮑쮒쮓쮔쮕쮖쮗쮘쮙쮚쮛쮜쮝쮞쮟쮠쮡쮢쮣쮤쮥쮦쮧쮨쮩쮪쮫쮬쮭쮮쮯쮰쮱쮲쮳쮴쮵쮶쮷쮸쮹쮺쮻쮼쮽쮾쮿쯀쯁쯂쯃쯄쯅쯆쯇쯈쯉쯊쯋쯌쯍쯎쯏쯐쯑쯒쯓쯔쯕쯖쯗쯘쯙쯚쯛쯜쯝쯞쯟쯠쯡쯢쯣쯤쯥쯦쯧쯨쯩쯪쯫쯬쯭쯮쯯쯰쯱쯲쯳쯴쯵쯶쯷쯸쯹쯺쯻쯼쯽쯾쯿",
      "첀첁첂첃첄첅첆첇첈첉첊첋첌첍첎첏첐첑첒첓첔첕첖첗처척첚첛천첝첞첟철첡첢첣첤첥첦첧첨첩첪첫첬청첮첯첰첱첲첳체첵첶첷첸첹첺첻첼첽첾첿쳀쳁쳂쳃쳄쳅쳆쳇쳈쳉쳊쳋쳌쳍쳎쳏쳐쳑쳒쳓쳔쳕쳖쳗쳘쳙쳚쳛쳜쳝쳞쳟쳠쳡쳢쳣쳤쳥쳦쳧쳨쳩쳪쳫쳬쳭쳮쳯쳰쳱쳲쳳쳴쳵쳶쳷쳸쳹쳺쳻쳼쳽쳾쳿",
      "춀춁춂춃춄춅춆춇춈춉춊춋춌춍춎춏춐춑춒춓추축춖춗춘춙춚춛출춝춞춟춠춡춢춣춤춥춦춧춨충춪춫춬춭춮춯춰춱춲춳춴춵춶춷춸춹춺춻춼춽춾춿췀췁췂췃췄췅췆췇췈췉췊췋췌췍췎췏췐췑췒췓췔췕췖췗췘췙췚췛췜췝췞췟췠췡췢췣췤췥췦췧취췩췪췫췬췭췮췯췰췱췲췳췴췵췶췷췸췹췺췻췼췽췾췿",
      "캀캁캂캃캄캅캆캇캈캉캊캋캌캍캎캏캐캑캒캓캔캕캖캗캘캙캚캛캜캝캞캟캠캡캢캣캤캥캦캧캨캩캪캫캬캭캮캯캰캱캲캳캴캵캶캷캸캹캺캻캼캽캾캿컀컁컂컃컄컅컆컇컈컉컊컋컌컍컎컏컐컑컒컓컔컕컖컗컘컙컚컛컜컝컞컟컠컡컢컣커컥컦컧컨컩컪컫컬컭컮컯컰컱컲컳컴컵컶컷컸컹컺컻컼컽컾컿",
      "쾀쾁쾂쾃쾄쾅쾆쾇쾈쾉쾊쾋쾌쾍쾎쾏쾐쾑쾒쾓쾔쾕쾖쾗쾘쾙쾚쾛쾜쾝쾞쾟쾠쾡쾢쾣쾤쾥쾦쾧쾨쾩쾪쾫쾬쾭쾮쾯쾰쾱쾲쾳쾴쾵쾶쾷쾸쾹쾺쾻쾼쾽쾾쾿쿀쿁쿂쿃쿄쿅쿆쿇쿈쿉쿊쿋쿌쿍쿎쿏쿐쿑쿒쿓쿔쿕쿖쿗쿘쿙쿚쿛쿜쿝쿞쿟쿠쿡쿢쿣쿤쿥쿦쿧쿨쿩쿪쿫쿬쿭쿮쿯쿰쿱쿲쿳쿴쿵쿶쿷쿸쿹쿺쿻쿼쿽쿾쿿",
      "킀킁킂킃킄킅킆킇킈킉킊킋킌킍킎킏킐킑킒킓킔킕킖킗킘킙킚킛킜킝킞킟킠킡킢킣키킥킦킧킨킩킪킫킬킭킮킯킰킱킲킳킴킵킶킷킸킹킺킻킼킽킾킿타탁탂탃탄탅탆탇탈탉탊탋탌탍탎탏탐탑탒탓탔탕탖탗탘탙탚탛태택탞탟탠탡탢탣탤탥탦탧탨탩탪탫탬탭탮탯탰탱탲탳탴탵탶탷탸탹탺탻탼탽탾탿",
      "톀톁톂톃톄톅톆톇톈톉톊톋톌톍톎톏톐톑톒톓톔톕톖톗톘톙톚톛톜톝톞톟토톡톢톣톤톥톦톧톨톩톪톫톬톭톮톯톰톱톲톳톴통톶톷톸톹톺톻톼톽톾톿퇀퇁퇂퇃퇄퇅퇆퇇퇈퇉퇊퇋퇌퇍퇎퇏퇐퇑퇒퇓퇔퇕퇖퇗퇘퇙퇚퇛퇜퇝퇞퇟퇠퇡퇢퇣퇤퇥퇦퇧퇨퇩퇪퇫퇬퇭퇮퇯퇰퇱퇲퇳퇴퇵퇶퇷퇸퇹퇺퇻퇼퇽퇾퇿",
      "튀튁튂튃튄튅튆튇튈튉튊튋튌튍튎튏튐튑튒튓튔튕튖튗튘튙튚튛튜튝튞튟튠튡튢튣튤튥튦튧튨튩튪튫튬튭튮튯튰튱튲튳튴튵튶튷트특튺튻튼튽튾튿틀틁틂틃틄틅틆틇틈틉틊틋틌틍틎틏틐틑틒틓틔틕틖틗틘틙틚틛틜틝틞틟틠틡틢틣틤틥틦틧틨틩틪틫틬틭틮틯티틱틲틳틴틵틶틷틸틹틺틻틼틽틾틿",
      "펀펁펂펃펄펅펆펇펈펉펊펋펌펍펎펏펐펑펒펓펔펕펖펗페펙펚펛펜펝펞펟펠펡펢펣펤펥펦펧펨펩펪펫펬펭펮펯펰펱펲펳펴펵펶펷편펹펺펻펼펽펾펿폀폁폂폃폄폅폆폇폈평폊폋폌폍폎폏폐폑폒폓폔폕폖폗폘폙폚폛폜폝폞폟폠폡폢폣폤폥폦폧폨폩폪폫포폭폮폯폰폱폲폳폴폵폶폷폸폹폺폻폼폽폾폿",
      "풀풁풂풃풄풅풆풇품풉풊풋풌풍풎풏풐풑풒풓풔풕풖풗풘풙풚풛풜풝풞풟풠풡풢풣풤풥풦풧풨풩풪풫풬풭풮풯풰풱풲풳풴풵풶풷풸풹풺풻풼풽풾풿퓀퓁퓂퓃퓄퓅퓆퓇퓈퓉퓊퓋퓌퓍퓎퓏퓐퓑퓒퓓퓔퓕퓖퓗퓘퓙퓚퓛퓜퓝퓞퓟퓠퓡퓢퓣퓤퓥퓦퓧퓨퓩퓪퓫퓬퓭퓮퓯퓰퓱퓲퓳퓴퓵퓶퓷퓸퓹퓺퓻퓼퓽퓾퓿",
      "햀햁햂햃햄햅햆햇했행햊햋햌햍햎햏햐햑햒햓햔햕햖햗햘햙햚햛햜햝햞햟햠햡햢햣햤향햦햧햨햩햪햫햬햭햮햯햰햱햲햳햴햵햶햷햸햹햺햻햼햽햾햿헀헁헂헃헄헅헆헇허헉헊헋헌헍헎헏헐헑헒헓헔헕헖헗험헙헚헛헜헝헞헟헠헡헢헣헤헥헦헧헨헩헪헫헬헭헮헯헰헱헲헳헴헵헶헷헸헹헺헻헼헽헾헿",
      "횀횁횂횃횄횅횆횇횈횉횊횋회획횎횏횐횑횒횓횔횕횖횗횘횙횚횛횜횝횞횟횠횡횢횣횤횥횦횧효횩횪횫횬횭횮횯횰횱횲횳횴횵횶횷횸횹횺횻횼횽횾횿훀훁훂훃후훅훆훇훈훉훊훋훌훍훎훏훐훑훒훓훔훕훖훗훘훙훚훛훜훝훞훟훠훡훢훣훤훥훦훧훨훩훪훫훬훭훮훯훰훱훲훳훴훵훶훷훸훹훺훻훼훽훾훿",
      "힀힁힂힃힄힅힆힇히힉힊힋힌힍힎힏힐힑힒힓힔힕힖힗힘힙힚힛힜힝힞힟힠힡힢힣힤힥힦힧힨힩힪힫힬힭힮힯ힰힱힲힳힴힵힶힷힸힹힺힻힼힽힾힿퟀퟁퟂퟃퟄퟅퟆ퟇퟈퟉퟊ퟋퟌퟍퟎퟏퟐퟑퟒퟓퟔퟕퟖퟗퟘퟙퟚퟛퟜퟝퟞퟟퟠퟡퟢퟣퟤퟥퟦퟧퟨퟩퟪퟫퟬퟭퟮퟯퟰퟱퟲퟳퟴퟵퟶퟷퟸퟹퟺퟻ퟼퟽퟾퟿",
      "",
      "",
      "",
      "",
      "",
      "",
      "",
      "",
      "",
      "",
      "",
      "",
      "",
      "",
      "",
      "",
      "",
      "",
      "",
      "",
      "",
      "",
      "",
      "",
      "",
      "呂女廬旅濾礪閭驪麗黎力曆歷轢年憐戀撚漣煉璉秊練聯輦蓮連鍊列劣咽烈裂說廉念捻殮簾獵令囹寧嶺怜玲瑩羚聆鈴零靈領例禮醴隸惡了僚寮尿料樂燎療蓼遼龍暈阮劉杻柳流溜琉留硫紐類六戮陸倫崙淪輪律慄栗率隆利吏履易李梨泥理痢罹裏裡里離匿溺吝燐璘藺隣鱗麟林淋臨立笠粒狀炙識什茶刺",
      "婢嬨廒廙彩徭惘慎愈憎慠懲戴揄搜摒敖晴朗望杖歹殺流滛滋漢瀞煮瞧爵犯猪瑱甆画瘝瘟益盛直睊着磌窱節类絛練缾者荒華蝹襁覆視調諸請謁諾諭謹變贈輸遲醙鉶陼難靖韛響頋頻鬒龜𢡊𢡄𣏕㮝䀘䀹𥉉𥳐𧻓齃龎﫚﫛﫜﫝﫞﫟﫠﫡﫢﫣﫤﫥﫦﫧﫨﫩﫪﫫﫬﫭﫮﫯﫰﫱﫲﫳﫴﫵﫶﫷﫸﫹﫺﫻﫼﫽﫾﫿",
      "ﮀﮁﮂﮃﮄﮅﮆﮇﮈﮉﮊﮋﮌﮍﮎﮏﮐﮑﮒﮓﮔﮕﮖﮗﮘﮙﮚﮛﮜﮝﮞﮟﮠﮡﮢﮣﮤﮥﮦﮧﮨﮩﮪﮫﮬﮭﮮﮯﮰﮱ﮲﮳﮴﮵﮶﮷﮸﮹﮺﮻﮼﮽﮾﮿﯀﯁﯂﯃﯄﯅﯆﯇﯈﯉﯊﯋﯌﯍﯎﯏﯐﯑﯒ﯓﯔﯕﯖﯗﯘﯙﯚﯛﯜﯝﯞﯟﯠﯡﯢﯣﯤﯥﯦﯧﯨﯩﯪﯫﯬﯭﯮﯯﯰﯱﯲﯳﯴﯵﯶﯷﯸﯹﯺﯻﯼﯽﯾﯿ",
      "ﲀﲁﲂﲃﲄﲅﲆﲇﲈﲉﲊﲋﲌﲍﲎﲏﲐﲑﲒﲓﲔﲕﲖﲗﲘﲙﲚﲛﲜﲝﲞﲟﲠﲡﲢﲣﲤﲥﲦﲧﲨﲩﲪﲫﲬﲭﲮﲯﲰﲱﲲﲳﲴﲵﲶﲷﲸﲹﲺﲻﲼﲽﲾﲿﳀﳁﳂﳃﳄﳅﳆﳇﳈﳉﳊﳋﳌﳍﳎﳏﳐﳑﳒﳓﳔﳕﳖﳗﳘﳙﳚﳛﳜﳝﳞﳟﳠﳡﳢﳣﳤﳥﳦﳧﳨﳩﳪﳫﳬﳭﳮﳯﳰﳱﳲﳳﳴﳵﳶﳷﳸﳹﳺﳻﳼﳽﳾﳿ",
      "ﶀﶁﶂﶃﶄﶅﶆﶇﶈﶉﶊﶋﶌﶍﶎﶏ﶐﶑ﶒﶓﶔﶕﶖﶗﶘﶙﶚﶛﶜﶝﶞﶟﶠﶡﶢﶣﶤﶥﶦﶧﶨﶩﶪﶫﶬﶭﶮﶯﶰﶱﶲﶳﶴﶵﶶﶷﶸﶹﶺﶻﶼﶽﶾﶿﷀﷁﷂﷃﷄﷅﷆﷇ﷈﷉﷊﷋﷌﷍﷎﷏﷐﷑﷒﷓﷔﷕﷖﷗﷘﷙﷚﷛﷜﷝﷞﷟﷠﷡﷢﷣﷤﷥﷦﷧﷨﷩﷪﷫﷬﷭﷮﷯ﷰﷱﷲﷳﷴﷵﷶﷷﷸﷹﷺﷻ﷼﷽﷾﷿",
      "ﺀﺁﺂﺃﺄﺅﺆﺇﺈﺉﺊﺋﺌﺍﺎﺏﺐﺑﺒﺓﺔﺕﺖﺗﺘﺙﺚﺛﺜﺝﺞﺟﺠﺡﺢﺣﺤﺥﺦﺧﺨﺩﺪﺫﺬﺭﺮﺯﺰﺱﺲﺳﺴﺵﺶﺷﺸﺹﺺﺻﺼﺽﺾﺿﻀﻁﻂﻃﻄﻅﻆﻇﻈﻉﻊﻋﻌﻍﻎﻏﻐﻑﻒﻓﻔﻕﻖﻗﻘﻙﻚﻛﻜﻝﻞﻟﻠﻡﻢﻣﻤﻥﻦﻧﻨﻩﻪﻫﻬﻭﻮﻯﻰﻱﻲﻳﻴﻵﻶﻷﻸﻹﻺﻻﻼ﻽﻾﻿",
      "ﾀﾁﾂﾃﾄﾅﾆﾇﾈﾉﾊﾋﾌﾍﾎﾏﾐﾑﾒﾓﾔﾕﾖﾗﾘﾙﾚﾛﾜﾝﾞﾟﾠﾡﾢﾣﾤﾥﾦﾧﾨﾩﾪﾫﾬﾭﾮﾯﾰﾱﾲﾳﾴﾵﾶﾷﾸﾹﾺﾻﾼﾽﾾ﾿￀￁ￂￃￄￅￆￇ￈￉ￊￋￌￍￎￏ￐￑ￒￓￔￕￖￗ￘￙ￚￛￜ￝￞￟￠￡￢￣￤￥￦￧￨￩￪￫￬￭￮￯￰￱￲￳￴￵￶￷￸￹￺￻￼�￾￿">>

CharAt(s, i) == IF i >= 1 /\ i <= Len(s) THEN SubSeq(s, i, i) ELSE ""

HexDigits == "0123456789abcdef"
UpperHexDigits == "0123456789ABCDEF"

\* the value of a hexadecimal digit, -1 for any other character
HexValue(c) ==
    IF c = "" THEN -1
    ELSE IF \E k \in 1..16 : SubSeq(HexDigits, k, k) = c
    THEN (CHOOSE k \in 1..16 : SubSeq(HexDigits, k, k) = c) - 1
    ELSE IF \E k \in 1..16 : SubSeq(UpperHexDigits, k, k) = c
    THEN (CHOOSE k \in 1..16 : SubSeq(UpperHexDigits, k, k) = c) - 1
    ELSE -1

\* the four hexadecimal digits of a code unit
Hex4(code) ==
    SubSeq(UpperHexDigits, code \div 4096 + 1, code \div 4096 + 1)
        \o SubSeq(UpperHexDigits, ((code \div 256) % 16) + 1, ((code \div 256) % 16) + 1)
        \o SubSeq(UpperHexDigits, ((code \div 16) % 16) + 1, ((code \div 16) % 16) + 1)
        \o SubSeq(UpperHexDigits, (code % 16) + 1, (code % 16) + 1)

\* a code unit of U+D800 to U+DFFF
Surrogate(code) == code >= 55296 /\ code <= 57343

\* String.fromCharCode(code)
fromCharCode(code) ==
    IF code >= 1 /\ code <= 255 THEN SubSeq(Latin1, code, code)
    ELSE IF code >= 256 /\ code % 256 >= 128 /\ ~Surrogate(code)
    THEN SubSeq(HighCharacters[IF code < 55296 THEN code \div 256
                               ELSE code \div 256 - 8],
                (code % 256) - 127, (code % 256) - 127)
    ELSE "U+" \o Hex4(code)

\* the code unit of each character of Latin1
Latin1Codes ==
    [c \in {SubSeq(Latin1, k, k) : k \in 1..255} |->
        CHOOSE k \in 1..255 : SubSeq(Latin1, k, k) = c]

\* the code unit of a character of HighCharacters
HighCode(c) ==
    LET p == CHOOSE q \in DOMAIN HighCharacters :
                 \E k \in 1..128 : SubSeq(HighCharacters[q], k, k) = c
    IN  256 * (IF p < 216 THEN p ELSE p + 8) + 127
            + CHOOSE k \in 1..128 : SubSeq(HighCharacters[p], k, k) = c

\* s.charCodeAt(0) of a character
charCodeAt(c) ==
    IF c \in DOMAIN Latin1Codes THEN Latin1Codes[c]
    ELSE IF Len(c) = 6
    THEN 4096 * HexValue(CharAt(c, 3)) + 256 * HexValue(CharAt(c, 4))
             + 16 * HexValue(CharAt(c, 5)) + HexValue(CharAt(c, 6))
    ELSE HighCode(c)

\* the characters of a string
Chars(s) == [i \in 1..Len(s) |-> SubSeq(s, i, i)]

\* ------------------------------------------------------------------------
\* JSON.parse
\* ------------------------------------------------------------------------
\* A parsed value: its kind ("null", "true", "false", "number", "string",
\* "array", "object"), for a string its characters, for a number the
\* characters of its literal, and for an array its elements.
JsonValue(kind, text, elems) == [kind |-> kind, text |-> text, elems |-> elems]
\* the result of reading a value: whether the text has one at the position,
\* the position after it, and the value
Parsed(pos, value) == [ok |-> TRUE, pos |-> pos, value |-> value]
SyntaxError == [ok |-> FALSE, pos |-> 0, value |-> JsonValue("null", <<>>, <<>>)]

JsonWhiteSpace == {" ", "\t", "\n", "\r"}
\* U+0001 to U+001F, which a JSON string cannot hold unescaped
ControlCharacters ==
    {"", "", "", "", "", "", "", "", "\t", "\n", "", "\f", "\r",
     "", "", "", "", "", "", "", "", "", "", "", "", "",
     "", "", "", "", ""}
Digits == {"0", "1", "2", "3", "4", "5", "6", "7", "8", "9"}

RECURSIVE SkipWhiteSpace(_, _)
SkipWhiteSpace(s, i) ==
    IF CharAt(s, i) \in JsonWhiteSpace THEN SkipWhiteSpace(s, i + 1) ELSE i

RECURSIVE SkipDigits(_, _)
SkipDigits(s, i) == IF CharAt(s, i) \in Digits THEN SkipDigits(s, i + 1) ELSE i

\* the character of a \uXXXX escape
CodeUnit(s, i) ==
    fromCharCode(4096 * HexValue(CharAt(s, i)) + 256 * HexValue(CharAt(s, i + 1))
                 + 16 * HexValue(CharAt(s, i + 2)) + HexValue(CharAt(s, i + 3)))

SimpleEscape(c) ==
    CASE c = "\"" -> "\""
      [] c = "\\" -> "\\"
      [] c = "/" -> "/"
      [] c = "b" -> ""
      [] c = "f" -> "\f"
      [] c = "n" -> "\n"
      [] c = "r" -> "\r"
      [] c = "t" -> "\t"

\* the characters of a string from position i, after its opening quote
RECURSIVE ParseString(_, _, _)
ParseString(s, i, read) ==
    LET c == CharAt(s, i)
        e == CharAt(s, i + 1)
    IN  CASE c = "" \/ c \in ControlCharacters -> SyntaxError
          [] c = "\"" -> Parsed(i + 1, JsonValue("string", read, <<>>))
          [] c = "\\" /\ e \in {"\"", "\\", "/", "b", "f", "n", "r", "t"} ->
                 ParseString(s, i + 2, Append(read, SimpleEscape(e)))
          [] c = "\\" /\ e = "u"
               /\ \A k \in 2..5 : HexValue(CharAt(s, i + k)) >= 0 ->
                 ParseString(s, i + 6, Append(read, CodeUnit(s, i + 2)))
          [] c = "\\" -> SyntaxError
          [] OTHER -> ParseString(s, i + 1, Append(read, c))

\* -?(0|[1-9][0-9]*)(\.[0-9]+)?([eE][+-]?[0-9]+)?
ParseNumber(s, i) ==
    LET first == IF CharAt(s, i) = "-" THEN i + 1 ELSE i
        afterInt == IF CharAt(s, first) = "0" THEN first + 1
                    ELSE SkipDigits(s, first)
        hasFraction == CharAt(s, afterInt) = "."
        afterFraction == IF hasFraction THEN SkipDigits(s, afterInt + 1)
                         ELSE afterInt
        hasExponent == CharAt(s, afterFraction) \in {"e", "E"}
        expDigits == IF CharAt(s, afterFraction + 1) \in {"+", "-"}
                     THEN afterFraction + 2 ELSE afterFraction + 1
        afterExponent == IF hasExponent THEN SkipDigits(s, expDigits)
                         ELSE afterFraction
    IN  IF \/ afterInt = first
           \/ hasFraction /\ afterFraction = afterInt + 1
           \/ hasExponent /\ afterExponent = expDigits
        THEN SyntaxError
        ELSE Parsed(afterExponent,
                    JsonValue("number", Chars(SubSeq(s, i, afterExponent - 1)),
                              <<>>))

ParseWord(s, i, word) ==
    IF i + Len(word) - 1 <= Len(s) /\ SubSeq(s, i, i + Len(word) - 1) = word
    THEN Parsed(i + Len(word), JsonValue(word, <<>>, <<>>))
    ELSE SyntaxError

RECURSIVE ParseValue(_, _)
RECURSIVE ParseElements(_, _, _)
RECURSIVE ParseMembers(_, _)
RECURSIVE AfterElement(_, _, _)
RECURSIVE AfterName(_, _)
RECURSIVE AfterMember(_, _)

\* an array after the value element: a comma and the elements that follow,
\* or the closing bracket
AfterElement(s, element, read) ==
    LET next == SkipWhiteSpace(s, element.pos)
    IN  IF ~element.ok THEN SyntaxError
        ELSE CASE CharAt(s, next) = "," ->
                      ParseElements(s, next + 1, Append(read, element.value))
               [] CharAt(s, next) = "]" ->
                      Parsed(next + 1,
                             JsonValue("array", <<>>, Append(read, element.value)))
               [] OTHER -> SyntaxError

\* the elements of an array from position i, a value expected there
ParseElements(s, i, read) == AfterElement(s, ParseValue(s, i), read)

\* an object after the value member: a comma and the members that follow,
\* or the closing brace
AfterMember(s, member) ==
    LET next == SkipWhiteSpace(s, member.pos)
    IN  IF ~member.ok THEN SyntaxError
        ELSE CASE CharAt(s, next) = "," -> ParseMembers(s, next + 1)
               [] CharAt(s, next) = "}" ->
                      Parsed(next + 1, JsonValue("object", <<>>, <<>>))
               [] OTHER -> SyntaxError

\* an object after the name of a member: a colon and a value
AfterName(s, name) ==
    LET colon == SkipWhiteSpace(s, name.pos)
    IN  AfterMember(s, IF name.ok /\ CharAt(s, colon) = ":"
                       THEN ParseValue(s, colon + 1) ELSE SyntaxError)

\* the members of an object from position i, a name expected there
ParseMembers(s, i) ==
    LET key == SkipWhiteSpace(s, i)
    IN  AfterName(s, IF CharAt(s, key) = "\"" THEN ParseString(s, key + 1, <<>>)
                     ELSE SyntaxError)

\* the value at position i, after any white space
ParseValue(s, i) ==
    LET start == SkipWhiteSpace(s, i)
        c == CharAt(s, start)
        inside == SkipWhiteSpace(s, start + 1)
    IN  CASE c = "n" -> ParseWord(s, start, "null")
          [] c = "t" -> ParseWord(s, start, "true")
          [] c = "f" -> ParseWord(s, start, "false")
          [] c = "\"" -> ParseString(s, start + 1, <<>>)
          [] c = "-" \/ c \in Digits -> ParseNumber(s, start)
          [] c = "[" -> IF CharAt(s, inside) = "]"
                        THEN Parsed(inside + 1, JsonValue("array", <<>>, <<>>))
                        ELSE ParseElements(s, start + 1, <<>>)
          [] c = "{" -> IF CharAt(s, inside) = "}"
                        THEN Parsed(inside + 1, JsonValue("object", <<>>, <<>>))
                        ELSE ParseMembers(s, start + 1)
          [] OTHER -> SyntaxError

\* JSON.parse(text): the parsed value, or ok = FALSE where JSON.parse throws
\* a SyntaxError
WholeText(text, parsed) ==
    IF parsed.ok /\ SkipWhiteSpace(text, parsed.pos) = Len(text) + 1
    THEN [ok |-> TRUE, isArray |-> parsed.value.kind = "array",
          value |-> parsed.value, elems |-> parsed.value.elems]
    ELSE [ok |-> FALSE, isArray |-> FALSE, value |-> SyntaxError.value,
          elems |-> <<>>]

JSONParse(text) == WholeText(text, ParseValue(text, 1))

\* ------------------------------------------------------------------------
\* The admin validator, continued
\* ------------------------------------------------------------------------
\* list.includes(id), for a list of strings
Includes(list, id) == \E k \in DOMAIN list : list[k] = id

\* allowedIds.includes(id): an element of the parsed list is the id when it
\* is the same string, or null where the id is null
IncludesId(list, id) ==
    \E k \in DOMAIN list :
        \/ list[k].kind = "string" /\ list[k].text = Chars(id)
                                   /\ id # UndefinedStr
                                   /\ id # NullStr
        \/ list[k].kind = "null" /\ id = NullStr

\* mutation of AllowedProductsCheck: only the product id is looked up
AllowedProductsCheck_productOnly(selectedTier, allowedIds, selected) ==
    IF \E i \in DOMAIN selected : ~IncludesId(allowedIds, selected[i].productId)
    THEN <<ValidationError("selectedItems",
               <<"Product not available in ", selectedTier.name, " tier">>,
               "PRODUCT_NOT_IN_TIER")>>
    ELSE <<>>

\* the loop over selectedItems, left at the first item that is not allowed
AllowedProductsCheck(selectedTier, allowedIds, selected) ==
    IF \E i \in DOMAIN selected :
          ~(\/ IncludesId(allowedIds, selected[i].productId)
            \/ IncludesId(allowedIds, selected[i].variantId))
    THEN <<ValidationError("selectedItems",
               <<"Product not available in ", selectedTier.name, " tier">>,
               "PRODUCT_NOT_IN_TIER")>>
    ELSE <<>>

AdminTierChecks(selectedTier, selected) ==
    (IF SumQuantity(selected) # selectedTier.productCount
     THEN <<ValidationError("selectedItems",
                <<selectedTier.name, " requires exactly ",
                  ToString(selectedTier.productCount), " products, got ",
                  ToString(SumQuantity(selected))>>,
                "TIER_PRODUCT_COUNT")>>
     ELSE <<>>)
    \o
    (IF TruthyStr(selectedTier.allowedProducts)
     THEN LET allowedIds == JSONParse(selectedTier.allowedProducts)
          IN  IF allowedIds.isArray /\ Len(allowedIds.elems) > 0
              THEN AllowedProductsCheck(selectedTier, allowedIds.elems, selected)
              ELSE <<>>
     ELSE <<>>)

HasTier(tiers, id) == \E k \in DOMAIN tiers : tiers[k].id = id
\* bundle.tiers.find((t) => t.id === tierId), when there is one
TierOf(tiers, id) ==
    tiers[CHOOSE k \in DOMAIN tiers :
              tiers[k].id = id /\ \A j \in 1..(k - 1) : tiers[j].id # id]

AdminTieredChecks(b, selected, tid) ==
    IF ~TruthyStr(tid)
    THEN <<ValidationError("tierId", <<"Please select a tier">>, "TIER_REQUIRED")>>
    ELSE IF ~HasTier(b.tiers, tid)
    THEN <<ValidationError("tierId", <<"Invalid tier selected">>, "INVALID_TIER")>>
    ELSE AdminTierChecks(TierOf(b.tiers, tid), selected)

\* JSON.parse throws inside the try block
AdminThrows(b, tid) ==
    /\ b.type = TIERED
    /\ TruthyStr(tid)
    /\ HasTier(b.tiers, tid)
    /\ TruthyStr(TierOf(b.tiers, tid).allowedProducts)
    /\ ~JSONParse(TierOf(b.tiers, tid).allowedProducts).ok

AdminCommonChecks(selected, qty) ==
    (IF qty < 1
     THEN <<ValidationError("quantity", <<"Quantity must be at least 1">>,
                            "MIN_QUANTITY")>>
     ELSE <<>>)
    \o
    [i \in DOMAIN SelectSeq(selected, LAMBDA item : RLt(item.price, R(0))) |->
        ValidationError("selectedItems",
            <<"Invalid price for item: ",
              SelectSeq(selected, LAMBDA item : RLt(item.price, R(0)))[i].productId>>,
            "INVALID_PRICE")]

\* the body of the response, with the status and, for a MIX_MATCH bundle,
\* the categoryTotal of every category
adminValidate(b, selected, tid, qty) ==
    LET errors ==
            (CASE b.type = FIXED -> AdminFixedChecks(b, selected)
               [] b.type = MIX_MATCH -> AdminMixMatchChecks(b, selected)
               [] b.type = VOLUME -> AdminVolumeChecks(b, selected)
               [] b.type = TIERED -> AdminTieredChecks(b, selected, tid)
               [] OTHER -> <<>>)
            \o AdminCommonChecks(selected, qty)
        warnings == IF b.type = VOLUME THEN AdminVolumeWarnings(b, selected, qty)
                    ELSE <<>>
    IN  IF AdminThrows(b, tid)
        THEN [status |-> 500, isValid |-> FALSE, errors |-> <<>>,
              warnings |-> <<>>, categoryTotals |-> <<>>]
        ELSE [status |-> 200, isValid |-> Len(errors) = 0, errors |-> errors,
              warnings |-> warnings,
              categoryTotals |->
                  IF b.type = MIX_MATCH
                  THEN [k \in DOMAIN b.categories |->
                           AdminCategoryTotal(b.categories[k], selected)]
                  ELSE <<>>]

\* ------------------------------------------------------------------------
\* POST /api/storefront/bundle/validate: the storefront validator
\* ------------------------------------------------------------------------
\* now: the value of new Date() inside the function, in seconds
isBundleScheduleActive(b, now) ==
    IF TruthyStr(b.startDate) /\ DateTime(b.startDate) > now THEN FALSE
    ELSE IF TruthyStr(b.endDate) /\ DateTime(b.endDate) < now THEN FALSE
    ELSE TRUE

StorefrontProductCountChecks(b, selected) ==
    LET totalProducts == SumQuantity(selected)
    IN  (IF TruthyInt(b.minProducts) /\ totalProducts < b.minProducts[1]
         THEN << <<"Select at least ", ToString(b.minProducts[1]), " products">> >>
         ELSE <<>>)
        \o
        (IF TruthyInt(b.maxProducts) /\ totalProducts > b.maxProducts[1]
         THEN << <<"Maximum ", ToString(b.maxProducts[1]), " products allowed">> >>
         ELSE <<>>)

\* selectedFromCategory
StorefrontCategoryItems(category, selected) ==
    LET categoryItemIds ==
            [k \in DOMAIN category.items |-> category.items[k].shopifyVariantId]
    IN  SelectSeq(selected, LAMBDA s : Includes(categoryItemIds, s.variantId))

StorefrontCategoryTotal(category, selected) ==
    SumQuantity(StorefrontCategoryItems(category, selected))

StorefrontCategoryErrors(category, categoryTotal) ==
    (IF category.minSelect # 0 /\ categoryTotal < category.minSelect
     THEN << <<category.name, ": select at least ",
               ToString(category.minSelect), " items">> >>
     ELSE <<>>)
    \o
    (IF TruthyInt(category.maxSelect) /\ categoryTotal > category.maxSelect[1]
     THEN << <<category.name, ": maximum ", ToString(category.maxSelect[1]),
               " items">> >>
     ELSE <<>>)

RECURSIVE StorefrontCategoryChecks(_, _)
StorefrontCategoryChecks(categories, selected) ==
    IF categories = <<>> THEN <<>>
    ELSE StorefrontCategoryErrors(Head(categories),
                                  StorefrontCategoryTotal(Head(categories), selected))
         \o StorefrontCategoryChecks(Tail(categories), selected)

\* the loop over selectedItems with the Set seen, left at the first item
\* whose variantId was seen
StorefrontDuplicateChecks(b, selected) ==
    IF ~b.allowDuplicates
       /\ \E j \in DOMAIN selected :
             \E i \in 1..(j - 1) : selected[i].variantId = selected[j].variantId
    THEN << <<"Duplicate products are not allowed in this bundle">> >>
    ELSE <<>>

StorefrontMixMatchChecks(b, selected) ==
    StorefrontProductCountChecks(b, selected)
    \o StorefrontCategoryChecks(b.categories, selected)
    \o StorefrontDuplicateChecks(b, selected)

\* mutation of StorefrontTieredChecks: too many products are accepted
StorefrontTieredChecks_noUpperCount(b, selected, tid) ==
    IF ~TruthyStr(tid) THEN << <<"Please select a tier">> >>
    ELSE IF ~HasTier(b.tiers, tid) THEN << <<"Invalid tier selected">> >>
    ELSE LET selectedTier == TierOf(b.tiers, tid)
             tierProductCount == SumQuantity(selected)
         IN  IF tierProductCount < selectedTier.productCount
             THEN << <<"Select ",
                       ToString(selectedTier.productCount - tierProductCount),
                       " more products for ", selectedTier.name>> >>
             ELSE <<>>

StorefrontTieredChecks(b, selected, tid) ==
    IF ~TruthyStr(tid) THEN << <<"Please select a tier">> >>
    ELSE IF ~HasTier(b.tiers, tid) THEN << <<"Invalid tier selected">> >>
    ELSE LET selectedTier == TierOf(b.tiers, tid)
             tierProductCount == SumQuantity(selected)
         IN  IF tierProductCount < selectedTier.productCount
             THEN << <<"Select ",
                       ToString(selectedTier.productCount - tierProductCount),
                       " more products for ", selectedTier.name>> >>
             ELSE IF tierProductCount > selectedTier.productCount
             THEN << <<selectedTier.name, " allows only ",
                       ToString(selectedTier.productCount), " products">> >>
             ELSE <<>>

StorefrontVolumeErrors(selected) ==
    IF Len(selected) = 0 THEN << <<"Please select items">> >> ELSE <<>>

StorefrontVolumeWarnings(b, selected, qty) ==
    LET totalQty == SumQuantity(selected) * qty
    IN  IF /\ Len(selected) # 0
           /\ ~HasQualifyingRule(b.volumeRules, totalQty)
           /\ Len(b.volumeRules) > 0
        THEN << <<"Add ", ToString(MinRuleQuantity(b.volumeRules) - totalQty),
                  " more to qualify for a discount">> >>
        ELSE <<>>

\* item.variantId.startsWith("gid://") ? item.variantId : `gid://...${id}`
GidPrefix == "gid://shopify/ProductVariant/"
VariantIds == {"V1", "V2", "V3"}
GidVariantIds == {GidPrefix \o v : v \in VariantIds}
\* String.prototype.startsWith
StartsWith(s, prefix) ==
    Len(s) >= Len(prefix) /\ SubSeq(s, 1, Len(prefix)) = prefix
StartsWithGid(id) == StartsWith(id, "gid://")
ToGid(id) == IF StartsWithGid(id) THEN id ELSE GidPrefix \o id

\* the ids sent with the CheckInventory query
InventoryVariantIds(selected) ==
    LET withVariant == SelectSeq(selected, LAMBDA item : TruthyStr(item.variantId))
    IN  [i \in DOMAIN withVariant |-> ToGid(withVariant[i].variantId)]

\* a node of the answer that is null
NoNode == [id |-> NullStr, availableForSale |-> FALSE,
           quantityAvailable |-> NullInt, productTitle |-> NullStr]

\* the body of the loop over inventoryJson.data.nodes for one node
InventoryNodeErrors(node, selected, qty) ==
    LET found == SelectSeq(selected,
                     LAMBDA item :
                         \/ item.variantId = node.id
                         \/ GidPrefix \o Interpolated(item.variantId) = node.id)
    IN  IF node = NoNode \/ found = <<>> THEN <<>>
        ELSE LET requiredQty == Head(found).quantity * qty
                 available == IF TruthyInt(node.quantityAvailable)
                              THEN node.quantityAvailable[1] ELSE 0
             IN  IF ~node.availableForSale
                 THEN << <<node.productTitle, " is not available">> >>
                 ELSE IF available < requiredQty
                 THEN << <<"Only ", ToString(available), " of ",
                           node.productTitle, " available">> >>
                 ELSE <<>>

RECURSIVE InventoryErrors(_, _, _, _)
InventoryErrors(ids, inv, selected, qty) ==
    IF ids = <<>> THEN <<>>
    ELSE InventoryNodeErrors(inv[Head(ids)], selected, qty)
         \o InventoryErrors(Tail(ids), inv, selected, qty)

\* an answer that ends the request before the checks
\* (the body of a refusal has no key warnings)
StorefrontRefusal(text) ==
    [status |-> 200, isValid |-> FALSE, errors |-> << <<text>> >>,
     pricing |-> NoResult, categoryTotals |-> <<>>]

\* the body of the response, pricing null being NoResult, with the status
\* and, for a MIX_MATCH bundle, the categoryTotal of every category
\* the response, with pricing the result of calculateBundlePricing on the
\* selection, which is taken when there are no errors
storefrontAnswer(b, selected, tid, qty, inv, now, pricing) ==
    LET errors ==
            (CASE b.type = MIX_MATCH -> StorefrontMixMatchChecks(b, selected)
               [] b.type = TIERED -> StorefrontTieredChecks(b, selected, tid)
               [] b.type = VOLUME -> StorefrontVolumeErrors(selected)
               [] OTHER -> <<>>)
            \o InventoryErrors(InventoryVariantIds(selected), inv, selected, qty)
        warnings == IF b.type = VOLUME
                    THEN StorefrontVolumeWarnings(b, selected, qty) ELSE <<>>
    IN  IF b.status \notin {"active", "scheduled"}
        THEN StorefrontRefusal("Bundle not found")
        ELSE IF ~isBundleScheduleActive(b, now)
        THEN StorefrontRefusal("Bundle not currently available")
        ELSE [status |-> 200, isValid |-> Len(errors) = 0, errors |-> errors,
              warnings |-> warnings,
              pricing |-> IF Len(errors) = 0 THEN pricing ELSE NoResult,
              categoryTotals |->
                  IF b.type = MIX_MATCH
                  THEN [k \in DOMAIN b.categories |->
                           StorefrontCategoryTotal(b.categories[k], selected)]
                  ELSE <<>>]

\* the bundle configurations handed to validateBundle; the create route
\* passes price, discountType, minProducts, maxProducts and the dates as
\* they are in the request body, undefined when the body has none
TitleValues == {UndefinedList, <<>>, <<" ", "\t">>, <<"\n", "B", " ">>}
ConfigTypeValues == {UndefinedStr, FIXED, MIX_MATCH, VOLUME, TIERED}
ConfigPriceValues == {UndefinedNum, NullNum, R(50)}
ConfigDiscountTypeValues == {UndefinedStr, NullStr, PERCENTAGE}
\* items, volumeRules and tiers count only by their length: the elements are
\* named by their ids
ConfigItemLists == {UndefinedList, <<>>, <<"item1">>}
ConfigRuleLists == {<<>>, <<"rule1">>}
ConfigTierLists == {<<>>, <<"tier1">>}
ConfigMinValues == {NullInt, IntOf(0), IntOf(3)}
ConfigMaxValues == {NullInt, IntOf(-1), IntOf(1), IntOf(3)}
DateValues == {NullStr, "2026-01-01", "2026-01-01T00:00:00.000Z", "2026-01-02"}

Configs ==
    [title : TitleValues, type : ConfigTypeValues, price : ConfigPriceValues,
     discountType : ConfigDiscountTypeValues, items : ConfigItemLists,
     volumeRules : ConfigRuleLists, tiers : ConfigTierLists,
     minProducts : ConfigMinValues, maxProducts : ConfigMaxValues,
     startDate : DateValues, endDate : DateValues]

NoConfig ==
    [title |-> UndefinedList, type |-> UndefinedStr, price |-> UndefinedNum,
     discountType |-> UndefinedStr, items |-> UndefinedList,
     volumeRules |-> <<>>, tiers |-> <<>>, minProducts |-> NullInt,
     maxProducts |-> NullInt, startDate |-> NullStr, endDate |-> NullStr]

\* before the call: no returned value has isValid false and no errors
NoValidation == [isValid |-> FALSE, errors |-> <<>>]

ValidateIdle == config = NoConfig /\ validation = NoValidation

\* ------------------------------------------------------------------------
\* The requests to the selection-time validators
\* ------------------------------------------------------------------------
MaxSelected == 2

\* the quantities of a selected item: the validators take the number sent,
\* 0 included
SelectedQuantityValues == {0, 1, 2}

\* variants V1 and V2 of product P1, variant V3 of product P2
SelectedItemValues ==
    {[productId |-> i[1], variantId |-> i[2], quantity |-> q, price |-> R(10)] :
        i \in {<<"P1", "V1">>, <<"P1", "V2">>, <<"P2", "V3">>},
        q \in SelectedQuantityValues}

ValidatorSelections == SeqsUpTo(SelectedItemValues, MaxSelected)

\* a row of Bundle with its relations, the columns at their defaults
DefaultBundle ==
    [type |-> FIXED, status |-> "active", startDate |-> NullStr,
     endDate |-> NullStr, price |-> NullNum, discountType |-> NullStr,
     discountValue |-> NullNum, minProducts |-> NullInt, maxProducts |-> NullInt,
     allowDuplicates |-> TRUE, applyToSameProduct |-> FALSE, items |-> <<>>,
     categories |-> <<>>, volumeRules |-> <<>>, tiers |-> <<>>]

CategoryItem(productId, variantId) ==
    [shopifyProductId |-> productId, shopifyVariantId |-> variantId]

CategoryItemLists ==
    {<<CategoryItem("P1", "V1")>>,
     <<CategoryItem("P1", "V1"), CategoryItem("P2", NullStr)>>}

CategoryValues ==
    [name : {"Tops"}, minSelect : {0, 2}, maxSelect : {NullInt, IntOf(1)},
     items : CategoryItemLists]

CategoryLists ==
    {<<>>} \cup {<<c>> : c \in CategoryValues}
    \cup {<<c, [name |-> "Caps", minSelect |-> 1, maxSelect |-> NullInt,
                items |-> <<CategoryItem("P2", "V3")>>]>> :
            c \in {d \in CategoryValues : d.minSelect = 0 /\ d.maxSelect = IntOf(1)}}

StoredMixMatchBundles ==
    {[DefaultBundle EXCEPT !.type = MIX_MATCH, !.discountType = PERCENTAGE,
                           !.discountValue = R(10), !.minProducts = mn,
                           !.maxProducts = mx, !.allowDuplicates = dup,
                           !.categories = cats] :
        mn \in {NullInt, IntOf(2)}, mx \in {NullInt, IntOf(3)}, dup \in BOOLEAN,
        cats \in CategoryLists}

StoredVolumeBundles ==
    {[DefaultBundle EXCEPT !.type = VOLUME, !.applyToSameProduct = same,
                           !.volumeRules = rules] :
        same \in BOOLEAN,
        rules \in {<<>>, <<[id |-> "r1", minQuantity |-> 3, maxQuantity |-> NullInt,
                            discountType |-> PERCENTAGE, discountValue |-> R(10),
                            label |-> NullStr]>>}}

\* one of the lists writes P1 with \uXXXX escapes
AllowedProductsValues ==
    {NullStr, "", "[]", "[\"P1\"]", "[\"P1\",\"V3\"]", "{}", "P1,V3", "[\"P2\"]",
     "[ \"\\u0050\\u0031\", \"V3\" ]", "null", "\"P1\"", "[1]"}

StoredTieredBundles ==
    {[DefaultBundle EXCEPT !.type = TIERED,
          !.tiers = <<[id |-> "t1", name |-> "Duo", price |-> R(15),
                       productCount |-> 2, allowedProducts |-> allowed]>>] :
        allowed \in AllowedProductsValues}

StoredFixedBundles ==
    {[DefaultBundle EXCEPT !.status = st, !.startDate = start, !.price = p,
                           !.items = its] :
        st \in {"active", "draft"}, start \in {NullStr, "2026-01-02"},
        p \in {NullNum, R(50)},
        its \in {<<>>, <<[shopifyProductId |-> "P1", shopifyVariantId |-> "V1",
                          productTitle |-> "Shirt", quantity |-> 2,
                          isRequired |-> TRUE]>>}}

StoredBundles ==
    StoredFixedBundles \cup StoredMixMatchBundles \cup StoredVolumeBundles
    \cup StoredTieredBundles

ValidatorTierIds == {NullStr, "t1", "tX"}

Node(variantId, availableForSale, quantityAvailable) ==
    [id |-> GidPrefix \o variantId, availableForSale |-> availableForSale,
     quantityAvailable |-> quantityAvailable,
     productTitle |-> "Product of " \o variantId]

\* the answers of the inventory: everything in stock, V1 not for sale, one
\* V1 left
storefrontValidate(b, selected, tid, qty, inv, now) ==
    storefrontAnswer(b, selected, tid, qty, inv, now,
                     calculateBundlePricing(b, selected, tid, qty))

InventoryValues ==
    {[g \in GidVariantIds |->
         IF g = GidPrefix \o "V1" THEN v1
         ELSE IF g = GidPrefix \o "V2" THEN Node("V2", TRUE, IntOf(9))
         ELSE Node("V3", TRUE, IntOf(9))] :
     v1 \in {Node("V1", TRUE, IntOf(9)), Node("V1", FALSE, IntOf(9)),
             Node("V1", TRUE, IntOf(1))}}

NoInventory == [g \in GidVariantIds |-> NoNode]

\* the instants at which the storefront request is handled
NowValues == {DateTime("2026-01-01"), DateTime("2026-01-02")}

NoAdminResponse ==
    [status |-> 0, isValid |-> FALSE, errors |-> <<>>, warnings |-> <<>>,
     categoryTotals |-> <<>>]

NoStorefrontResponse ==
    [status |-> 0, isValid |-> FALSE, errors |-> <<>>, warnings |-> <<>>,
     pricing |-> NoResult, categoryTotals |-> <<>>]

\* the storefront validator before its request
NotCalled == [at |-> "start", disturbed |-> FALSE]

ValidatorsIdle ==
    /\ inventory = NoInventory
    /\ adminResponse = NoAdminResponse
    /\ storefrontResponse = NoStorefrontResponse
    /\ storefrontCall = NotCalled

\* ------------------------------------------------------------------------
\* The two forms of an identifier
\* ------------------------------------------------------------------------
ProductGidPrefix == "gid://shopify/Product/"

ProductIds == {"P1", "P2"}

\* id.startsWith(prefix) ? id.replace(prefix, '') : id
\* (replace with a string pattern removes its first occurrence, here the
\* one the string starts with)
normalizeProductId(id) ==
    IF StartsWith(id, ProductGidPrefix)
    THEN SubSeq(id, Len(ProductGidPrefix) + 1, Len(id))
    ELSE id

productIdsMatch(id1, id2) ==
    IF ~TruthyStr(id1) \/ ~TruthyStr(id2) THEN FALSE
    ELSE normalizeProductId(id1) = normalizeProductId(id2)

\* the same selected item, its ids written in the gid:// form
GidForm(item) ==
    [item EXCEPT !.productId = ProductGidPrefix \o @,
                 !.variantId = GidPrefix \o @]

GidSelection(selected) == [i \in DOMAIN selected |-> GidForm(selected[i])]

\* ------------------------------------------------------------------------
\* The database and the admin routes before any request
\* ------------------------------------------------------------------------
BundleIds == {"b1", "b2"}

\* the requests the server handles at a time
Handlers == {"h1", "h2"}

\* findFirst / findUnique answer null: no such row
NoRow == [shop |-> NullStr]

NoRequest == [route |-> "none"]

NoResponse == [status |-> 0]

\* the handler serves no request
NoFlight == [at |-> "none"]

EmptyStore == [id \in BundleIds |-> NoRow]

Idle == [h \in Handlers |-> NoFlight]

RoutesIdle ==
    /\ store = EmptyStore
    /\ request = NoRequest
    /\ response = NoResponse
    /\ flight = Idle
    /\ categoryCount = 0
    /\ served = 0
    /\ snapshots = <<>>

\* ------------------------------------------------------------------------
\* generateHandle
\* ------------------------------------------------------------------------
\* [a-z0-9]
HandleCharacters ==
    {"a", "b", "c", "d", "e", "f", "g", "h", "i", "j", "k", "l", "m",
     "n", "o", "p", "q", "r", "s", "t", "u", "v", "w", "x", "y", "z",
     "0", "1", "2", "3", "4", "5", "6", "7", "8", "9"}

\* the letters toLowerCase changes, in runs <<first, last, step, delta>>:
\* first, first + step, ..., last each become the code point delta further
\* (Unicode 17)
LowerCaseRuns ==
    <<<<65, 90, 1, 32>>, <<192, 214, 1, 32>>, <<216, 222, 1, 32>>,
     <<256, 302, 2, 1>>, <<306, 310, 2, 1>>, <<313, 327, 2, 1>>,
     <<330, 374, 2, 1>>, <<376, 376, 1, -121>>, <<377, 381, 2, 1>>,
     <<385, 385, 1, 210>>, <<386, 388, 2, 1>>, <<390, 390, 1, 206>>,
     <<391, 391, 1, 1>>, <<393, 394, 1, 205>>, <<395, 395, 1, 1>>,
     <<398, 398, 1, 79>>, <<399, 399, 1, 202>>, <<400, 400, 1, 203>>,
     <<401, 401, 1, 1>>, <<403, 403, 1, 205>>, <<404, 404, 1, 207>>,
     <<406, 406, 1, 211>>, <<407, 407, 1, 209>>, <<408, 408, 1, 1>>,
     <<412, 412, 1, 211>>, <<413, 413, 1, 213>>, <<415, 415, 1, 214>>,
     <<416, 420, 2, 1>>, <<422, 422, 1, 218>>, <<423, 423, 1, 1>>,
     <<425, 425, 1, 218>>, <<428, 428, 1, 1>>, <<430, 430, 1, 218>>,
     <<431, 431, 1, 1>>, <<433, 434, 1, 217>>, <<435, 437, 2, 1>>,
     <<439, 439, 1, 219>>, <<440, 440, 1, 1>>, <<444, 444, 1, 1>>,
     <<452, 452, 1, 2>>, <<453, 453, 1, 1>>, <<455, 455, 1, 2>>,
     <<456, 456, 1, 1>>, <<458, 458, 1, 2>>, <<459, 475, 2, 1>>,
     <<478, 494, 2, 1>>, <<497, 497, 1, 2>>, <<498, 500, 2, 1>>,
     <<502, 502, 1, -97>>, <<503, 503, 1, -56>>, <<504, 542, 2, 1>>,
     <<544, 544, 1, -130>>, <<546, 562, 2, 1>>, <<570, 570, 1, 10795>>,
     <<571, 571, 1, 1>>, <<573, 573, 1, -163>>, <<574, 574, 1, 10792>>,
     <<577, 577, 1, 1>>, <<579, 579, 1, -195>>, <<580, 580, 1, 69>>,
     <<581, 581, 1, 71>>, <<582, 590, 2, 1>>, <<880, 882, 2, 1>>,
     <<886, 886, 1, 1>>, <<895, 895, 1, 116>>, <<902, 902, 1, 38>>,
     <<904, 906, 1, 37>>, <<908, 908, 1, 64>>, <<910, 911, 1, 63>>,
     <<913, 929, 1, 32>>, <<931, 939, 1, 32>>, <<975, 975, 1, 8>>,
     <<984, 1006, 2, 1>>, <<1012, 1012, 1, -60>>, <<1015, 1015, 1, 1>>,
     <<1017, 1017, 1, -7>>, <<1018, 1018, 1, 1>>, <<1021, 1023, 1, -130>>,
     <<1024, 1039, 1, 80>>, <<1040, 1071, 1, 32>>, <<1120, 1152, 2, 1>>,
     <<1162, 1214, 2, 1>>, <<1216, 1216, 1, 15>>, <<1217, 1229, 2, 1>>,
     <<1232, 1326, 2, 1>>, <<1329, 1366, 1, 48>>, <<4256, 4293, 1, 7264>>,
     <<4295, 4295, 1, 7264>>, <<4301, 4301, 1, 7264>>,
     <<5024, 5103, 1, 38864>>, <<5104, 5109, 1, 8>>, <<7305, 7305, 1, 1>>,
     <<7312, 7354, 1, -3008>>, <<7357, 7359, 1, -3008>>, <<7680, 7828, 2, 1>>,
     <<7838, 7838, 1, -7615>>, <<7840, 7934, 2, 1>>, <<7944, 7951, 1, -8>>,
     <<7960, 7965, 1, -8>>, <<7976, 7983, 1, -8>>, <<7992, 7999, 1, -8>>,
     <<8008, 8013, 1, -8>>, <<8025, 8031, 2, -8>>, <<8040, 8047, 1, -8>>,
     <<8072, 8079, 1, -8>>, <<8088, 8095, 1, -8>>, <<8104, 8111, 1, -8>>,
     <<8120, 8121, 1, -8>>, <<8122, 8123, 1, -74>>, <<8124, 8124, 1, -9>>,
     <<8136, 8139, 1, -86>>, <<8140, 8140, 1, -9>>, <<8152, 8153, 1, -8>>,
     <<8154, 8155, 1, -100>>, <<8168, 8169, 1, -8>>, <<8170, 8171, 1, -112>>,
     <<8172, 8172, 1, -7>>, <<8184, 8185, 1, -128>>, <<8186, 8187, 1, -126>>,
     <<8188, 8188, 1, -9>>, <<8486, 8486, 1, -7517>>,
     <<8490, 8490, 1, -8383>>, <<8491, 8491, 1, -8262>>,
     <<8498, 8498, 1, 28>>, <<8544, 8559, 1, 16>>, <<8579, 8579, 1, 1>>,
     <<9398, 9423, 1, 26>>, <<11264, 11311, 1, 48>>, <<11360, 11360, 1, 1>>,
     <<11362, 11362, 1, -10743>>, <<11363, 11363, 1, -3814>>,
     <<11364, 11364, 1, -10727>>, <<11367, 11371, 2, 1>>,
     <<11373, 11373, 1, -10780>>, <<11374, 11374, 1, -10749>>,
     <<11375, 11375, 1, -10783>>, <<11376, 11376, 1, -10782>>,
     <<11378, 11378, 1, 1>>, <<11381, 11381, 1, 1>>,
     <<11390, 11391, 1, -10815>>, <<11392, 11490, 2, 1>>,
     <<11499, 11501, 2, 1>>, <<11506, 11506, 1, 1>>, <<42560, 42604, 2, 1>>,
     <<42624, 42650, 2, 1>>, <<42786, 42798, 2, 1>>, <<42802, 42862, 2, 1>>,
     <<42873, 42875, 2, 1>>, <<42877, 42877, 1, -35332>>,
     <<42878, 42886, 2, 1>>, <<42891, 42891, 1, 1>>,
     <<42893, 42893, 1, -42280>>, <<42896, 42898, 2, 1>>,
     <<42902, 42920, 2, 1>>, <<42922, 42922, 1, -42308>>,
     <<42923, 42923, 1, -42319>>, <<42924, 42924, 1, -42315>>,
     <<42925, 42925, 1, -42305>>, <<42926, 42926, 1, -42308>>,
     <<42928, 42928, 1, -42258>>, <<42929, 42929, 1, -42282>>,
     <<42930, 42930, 1, -42261>>, <<42931, 42931, 1, 928>>,
     <<42932, 42946, 2, 1>>, <<42948, 42948, 1, -48>>,
     <<42949, 42949, 1, -42307>>, <<42950, 42950, 1, -35384>>,
     <<42951, 42953, 2, 1>>, <<42955, 42955, 1, -42343>>,
     <<42956, 42970, 2, 1>>, <<42972, 42972, 1, -42561>>,
     <<42997, 42997, 1, 1>>, <<65313, 65338, 1, 32>>, <<66560, 66599, 1, 40>>,
     <<66736, 66771, 1, 40>>, <<66928, 66938, 1, 39>>,
     <<66940, 66954, 1, 39>>, <<66956, 66962, 1, 39>>,
     <<66964, 66965, 1, 39>>, <<68736, 68786, 1, 64>>,
     <<68944, 68965, 1, 32>>, <<71840, 71871, 1, 32>>,
     <<93760, 93791, 1, 32>>, <<93856, 93880, 1, 27>>,
     <<125184, 125217, 1, 34>>>>

\* the code points that are cased and not case-ignorable (Unicode 17)
CasedRanges ==
    <<<<65, 90>>, <<97, 122>>, <<170, 170>>, <<181, 181>>, <<186, 186>>,
     <<192, 214>>, <<216, 246>>, <<248, 442>>, <<444, 447>>, <<452, 659>>,
     <<662, 687>>, <<880, 883>>, <<886, 887>>, <<891, 893>>, <<895, 895>>,
     <<902, 902>>, <<904, 906>>, <<908, 908>>, <<910, 929>>, <<931, 1013>>,
     <<1015, 1153>>, <<1162, 1327>>, <<1329, 1366>>, <<1376, 1416>>,
     <<4256, 4293>>, <<4295, 4295>>, <<4301, 4301>>, <<4304, 4346>>,
     <<4349, 4351>>, <<5024, 5109>>, <<5112, 5117>>, <<7296, 7306>>,
     <<7312, 7354>>, <<7357, 7359>>, <<7424, 7467>>, <<7531, 7543>>,
     <<7545, 7578>>, <<7680, 7957>>, <<7960, 7965>>, <<7968, 8005>>,
     <<8008, 8013>>, <<8016, 8023>>, <<8025, 8025>>, <<8027, 8027>>,
     <<8029, 8029>>, <<8031, 8061>>, <<8064, 8116>>, <<8118, 8124>>,
     <<8126, 8126>>, <<8130, 8132>>, <<8134, 8140>>, <<8144, 8147>>,
     <<8150, 8155>>, <<8160, 8172>>, <<8178, 8180>>, <<8182, 8188>>,
     <<8450, 8450>>, <<8455, 8455>>, <<8458, 8467>>, <<8469, 8469>>,
     <<8473, 8477>>, <<8484, 8484>>, <<8486, 8486>>, <<8488, 8488>>,
     <<8490, 8493>>, <<8495, 8500>>, <<8505, 8505>>, <<8508, 8511>>,
     <<8517, 8521>>, <<8526, 8526>>, <<8544, 8575>>, <<8579, 8580>>,
     <<9398, 9449>>, <<11264, 11387>>, <<11390, 11492>>, <<11499, 11502>>,
     <<11506, 11507>>, <<11520, 11557>>, <<11559, 11559>>, <<11565, 11565>>,
     <<42560, 42605>>, <<42624, 42651>>, <<42786, 42863>>, <<42865, 42887>>,
     <<42891, 42894>>, <<42896, 42972>>, <<42997, 42998>>, <<43002, 43002>>,
     <<43824, 43866>>, <<43872, 43880>>, <<43888, 43967>>, <<64256, 64262>>,
     <<64275, 64279>>, <<65313, 65338>>, <<65345, 65370>>, <<66560, 66639>>,
     <<66736, 66771>>, <<66776, 66811>>, <<66928, 66938>>, <<66940, 66954>>,
     <<66956, 66962>>, <<66964, 66965>>, <<66967, 66977>>, <<66979, 66993>>,
     <<66995, 67001>>, <<67003, 67004>>, <<68736, 68786>>, <<68800, 68850>>,
     <<68944, 68965>>, <<68976, 68997>>, <<71840, 71903>>, <<93760, 93823>>,
     <<93856, 93880>>, <<93883, 93907>>, <<119808, 119892>>,
     <<119894, 119964>>, <<119966, 119967>>, <<119970, 119970>>,
     <<119973, 119974>>, <<119977, 119980>>, <<119982, 119993>>,
     <<119995, 119995>>, <<119997, 120003>>, <<120005, 120069>>,
     <<120071, 120074>>, <<120077, 120084>>, <<120086, 120092>>,
     <<120094, 120121>>, <<120123, 120126>>, <<120128, 120132>>,
     <<120134, 120134>>, <<120138, 120144>>, <<120146, 120485>>,
     <<120488, 120512>>, <<120514, 120538>>, <<120540, 120570>>,
     <<120572, 120596>>, <<120598, 120628>>, <<120630, 120654>>,
     <<120656, 120686>>, <<120688, 120712>>, <<120714, 120744>>,
     <<120746, 120770>>, <<120772, 120779>>, <<122624, 122633>>,
     <<122635, 122654>>, <<122661, 122666>>, <<125184, 125251>>,
     <<127280, 127305>>, <<127312, 127337>>, <<127344, 127369>>>>

\* the code points that are case-ignorable (Unicode 17)
CaseIgnorableRanges ==
    <<<<39, 39>>, <<46, 46>>, <<58, 58>>, <<94, 94>>, <<96, 96>>, <<168, 168>>,
     <<173, 173>>, <<175, 175>>, <<180, 180>>, <<183, 184>>, <<688, 879>>,
     <<884, 885>>, <<890, 890>>, <<900, 901>>, <<903, 903>>, <<1155, 1161>>,
     <<1369, 1369>>, <<1375, 1375>>, <<1425, 1469>>, <<1471, 1471>>,
     <<1473, 1474>>, <<1476, 1477>>, <<1479, 1479>>, <<1524, 1524>>,
     <<1536, 1541>>, <<1552, 1562>>, <<1564, 1564>>, <<1600, 1600>>,
     <<1611, 1631>>, <<1648, 1648>>, <<1750, 1757>>, <<1759, 1768>>,
     <<1770, 1773>>, <<1807, 1807>>, <<1809, 1809>>, <<1840, 1866>>,
     <<1958, 1968>>, <<2027, 2037>>, <<2042, 2042>>, <<2045, 2045>>,
     <<2070, 2093>>, <<2137, 2139>>, <<2184, 2184>>, <<2192, 2193>>,
     <<2199, 2207>>, <<2249, 2306>>, <<2362, 2362>>, <<2364, 2364>>,
     <<2369, 2376>>, <<2381, 2381>>, <<2385, 2391>>, <<2402, 2403>>,
     <<2417, 2417>>, <<2433, 2433>>, <<2492, 2492>>, <<2497, 2500>>,
     <<2509, 2509>>, <<2530, 2531>>, <<2558, 2558>>, <<2561, 2562>>,
     <<2620, 2620>>, <<2625, 2626>>, <<2631, 2632>>, <<2635, 2637>>,
     <<2641, 2641>>, <<2672, 2673>>, <<2677, 2677>>, <<2689, 2690>>,
     <<2748, 2748>>, <<2753, 2757>>, <<2759, 2760>>, <<2765, 2765>>,
     <<2786, 2787>>, <<2810, 2815>>, <<2817, 2817>>, <<2876, 2876>>,
     <<2879, 2879>>, <<2881, 2884>>, <<2893, 2893>>, <<2901, 2902>>,
     <<2914, 2915>>, <<2946, 2946>>, <<3008, 3008>>, <<3021, 3021>>,
     <<3072, 3072>>, <<3076, 3076>>, <<3132, 3132>>, <<3134, 3136>>,
     <<3142, 3144>>, <<3146, 3149>>, <<3157, 3158>>, <<3170, 3171>>,
     <<3201, 3201>>, <<3260, 3260>>, <<3263, 3263>>, <<3270, 3270>>,
     <<3276, 3277>>, <<3298, 3299>>, <<3328, 3329>>, <<3387, 3388>>,
     <<3393, 3396>>, <<3405, 3405>>, <<3426, 3427>>, <<3457, 3457>>,
     <<3530, 3530>>, <<3538, 3540>>, <<3542, 3542>>, <<3633, 3633>>,
     <<3636, 3642>>, <<3654, 3662>>, <<3761, 3761>>, <<3764, 3772>>,
     <<3782, 3782>>, <<3784, 3790>>, <<3864, 3865>>, <<3893, 3893>>,
     <<3895, 3895>>, <<3897, 3897>>, <<3953, 3966>>, <<3968, 3972>>,
     <<3974, 3975>>, <<3981, 3991>>, <<3993, 4028>>, <<4038, 4038>>,
     <<4141, 4144>>, <<4146, 4151>>, <<4153, 4154>>, <<4157, 4158>>,
     <<4184, 4185>>, <<4190, 4192>>, <<4209, 4212>>, <<4226, 4226>>,
     <<4229, 4230>>, <<4237, 4237>>, <<4253, 4253>>, <<4348, 4348>>,
     <<4957, 4959>>, <<5906, 5908>>, <<5938, 5939>>, <<5970, 5971>>,
     <<6002, 6003>>, <<6068, 6069>>, <<6071, 6077>>, <<6086, 6086>>,
     <<6089, 6099>>, <<6103, 6103>>, <<6109, 6109>>, <<6155, 6159>>,
     <<6211, 6211>>, <<6277, 6278>>, <<6313, 6313>>, <<6432, 6434>>,
     <<6439, 6440>>, <<6450, 6450>>, <<6457, 6459>>, <<6679, 6680>>,
     <<6683, 6683>>, <<6742, 6742>>, <<6744, 6750>>, <<6752, 6752>>,
     <<6754, 6754>>, <<6757, 6764>>, <<6771, 6780>>, <<6783, 6783>>,
     <<6823, 6823>>, <<6832, 6877>>, <<6880, 6891>>, <<6912, 6915>>,
     <<6964, 6964>>, <<6966, 6970>>, <<6972, 6972>>, <<6978, 6978>>,
     <<7019, 7027>>, <<7040, 7041>>, <<7074, 7077>>, <<7080, 7081>>,
     <<7083, 7085>>, <<7142, 7142>>, <<7144, 7145>>, <<7149, 7149>>,
     <<7151, 7153>>, <<7212, 7219>>, <<7222, 7223>>, <<7288, 7293>>,
     <<7376, 7378>>, <<7380, 7392>>, <<7394, 7400>>, <<7405, 7405>>,
     <<7412, 7412>>, <<7416, 7417>>, <<7468, 7530>>, <<7544, 7544>>,
     <<7579, 7679>>, <<8125, 8125>>, <<8127, 8129>>, <<8141, 8143>>,
     <<8157, 8159>>, <<8173, 8175>>, <<8189, 8190>>, <<8203, 8207>>,
     <<8216, 8217>>, <<8228, 8228>>, <<8231, 8231>>, <<8234, 8238>>,
     <<8288, 8292>>, <<8294, 8303>>, <<8305, 8305>>, <<8319, 8319>>,
     <<8336, 8348>>, <<8400, 8432>>, <<11388, 11389>>, <<11503, 11505>>,
     <<11631, 11631>>, <<11647, 11647>>, <<11744, 11775>>, <<11823, 11823>>,
     <<12293, 12293>>, <<12330, 12333>>, <<12337, 12341>>, <<12347, 12347>>,
     <<12441, 12446>>, <<12540, 12542>>, <<40981, 40981>>, <<42232, 42237>>,
     <<42508, 42508>>, <<42607, 42610>>, <<42612, 42621>>, <<42623, 42623>>,
     <<42652, 42655>>, <<42736, 42737>>, <<42752, 42785>>, <<42864, 42864>>,
     <<42888, 42890>>, <<42993, 42996>>, <<43000, 43001>>, <<43010, 43010>>,
     <<43014, 43014>>, <<43019, 43019>>, <<43045, 43046>>, <<43052, 43052>>,
     <<43204, 43205>>, <<43232, 43249>>, <<43263, 43263>>, <<43302, 43309>>,
     <<43335, 43345>>, <<43392, 43394>>, <<43443, 43443>>, <<43446, 43449>>,
     <<43452, 43453>>, <<43471, 43471>>, <<43493, 43494>>, <<43561, 43566>>,
     <<43569, 43570>>, <<43573, 43574>>, <<43587, 43587>>, <<43596, 43596>>,
     <<43632, 43632>>, <<43644, 43644>>, <<43696, 43696>>, <<43698, 43700>>,
     <<43703, 43704>>, <<43710, 43711>>, <<43713, 43713>>, <<43741, 43741>>,
     <<43756, 43757>>, <<43763, 43764>>, <<43766, 43766>>, <<43867, 43871>>,
     <<43881, 43883>>, <<44005, 44005>>, <<44008, 44008>>, <<44013, 44013>>,
     <<64286, 64286>>, <<64434, 64450>>, <<65024, 65039>>, <<65043, 65043>>,
     <<65056, 65071>>, <<65106, 65106>>, <<65109, 65109>>, <<65279, 65279>>,
     <<65287, 65287>>, <<65294, 65294>>, <<65306, 65306>>, <<65342, 65342>>,
     <<65344, 65344>>, <<65392, 65392>>, <<65438, 65439>>, <<65507, 65507>>,
     <<65529, 65531>>, <<66045, 66045>>, <<66272, 66272>>, <<66422, 66426>>,
     <<67456, 67461>>, <<67463, 67504>>, <<67506, 67514>>, <<68097, 68099>>,
     <<68101, 68102>>, <<68108, 68111>>, <<68152, 68154>>, <<68159, 68159>>,
     <<68325, 68326>>, <<68900, 68903>>, <<68942, 68942>>, <<68969, 68973>>,
     <<68975, 68975>>, <<69291, 69292>>, <<69317, 69317>>, <<69370, 69375>>,
     <<69446, 69456>>, <<69506, 69509>>, <<69633, 69633>>, <<69688, 69702>>,
     <<69744, 69744>>, <<69747, 69748>>, <<69759, 69761>>, <<69811, 69814>>,
     <<69817, 69818>>, <<69821, 69821>>, <<69826, 69826>>, <<69837, 69837>>,
     <<69888, 69890>>, <<69927, 69931>>, <<69933, 69940>>, <<70003, 70003>>,
     <<70016, 70017>>, <<70070, 70078>>, <<70089, 70092>>, <<70095, 70095>>,
     <<70191, 70193>>, <<70196, 70196>>, <<70198, 70199>>, <<70206, 70206>>,
     <<70209, 70209>>, <<70367, 70367>>, <<70371, 70378>>, <<70400, 70401>>,
     <<70459, 70460>>, <<70464, 70464>>, <<70502, 70508>>, <<70512, 70516>>,
     <<70587, 70592>>, <<70606, 70606>>, <<70608, 70608>>, <<70610, 70610>>,
     <<70625, 70626>>, <<70712, 70719>>, <<70722, 70724>>, <<70726, 70726>>,
     <<70750, 70750>>, <<70835, 70840>>, <<70842, 70842>>, <<70847, 70848>>,
     <<70850, 70851>>, <<71090, 71093>>, <<71100, 71101>>, <<71103, 71104>>,
     <<71132, 71133>>, <<71219, 71226>>, <<71229, 71229>>, <<71231, 71232>>,
     <<71339, 71339>>, <<71341, 71341>>, <<71344, 71349>>, <<71351, 71351>>,
     <<71453, 71453>>, <<71455, 71455>>, <<71458, 71461>>, <<71463, 71467>>,
     <<71727, 71735>>, <<71737, 71738>>, <<71995, 71996>>, <<71998, 71998>>,
     <<72003, 72003>>, <<72148, 72151>>, <<72154, 72155>>, <<72160, 72160>>,
     <<72193, 72202>>, <<72243, 72248>>, <<72251, 72254>>, <<72263, 72263>>,
     <<72273, 72278>>, <<72281, 72283>>, <<72330, 72342>>, <<72344, 72345>>,
     <<72544, 72544>>, <<72546, 72548>>, <<72550, 72550>>, <<72752, 72758>>,
     <<72760, 72765>>, <<72767, 72767>>, <<72850, 72871>>, <<72874, 72880>>,
     <<72882, 72883>>, <<72885, 72886>>, <<73009, 73014>>, <<73018, 73018>>,
     <<73020, 73021>>, <<73023, 73029>>, <<73031, 73031>>, <<73104, 73105>>,
     <<73109, 73109>>, <<73111, 73111>>, <<73177, 73177>>, <<73459, 73460>>,
     <<73472, 73473>>, <<73526, 73530>>, <<73536, 73536>>, <<73538, 73538>>,
     <<73562, 73562>>, <<78896, 78912>>, <<78919, 78933>>, <<90398, 90409>>,
     <<90413, 90415>>, <<92912, 92916>>, <<92976, 92982>>, <<92992, 92995>>,
     <<93504, 93506>>, <<93547, 93548>>, <<94031, 94031>>, <<94095, 94111>>,
     <<94176, 94177>>, <<94179, 94180>>, <<94194, 94195>>, <<110576, 110579>>,
     <<110581, 110587>>, <<110589, 110590>>, <<113821, 113822>>,
     <<113824, 113827>>, <<118528, 118573>>, <<118576, 118598>>,
     <<119143, 119145>>, <<119155, 119170>>, <<119173, 119179>>,
     <<119210, 119213>>, <<119362, 119364>>, <<121344, 121398>>,
     <<121403, 121452>>, <<121461, 121461>>, <<121476, 121476>>,
     <<121499, 121503>>, <<121505, 121519>>, <<122880, 122886>>,
     <<122888, 122904>>, <<122907, 122913>>, <<122915, 122916>>,
     <<122918, 122922>>, <<122928, 122989>>, <<123023, 123023>>,
     <<123184, 123197>>, <<123566, 123566>>, <<123628, 123631>>,
     <<124139, 124143>>, <<124398, 124399>>, <<124643, 124643>>,
     <<124646, 124646>>, <<124654, 124655>>, <<124661, 124661>>,
     <<124671, 124671>>, <<125136, 125142>>, <<125252, 125259>>,
     <<127995, 127999>>, <<917505, 917505>>, <<917536, 917631>>,
     <<917760, 917999>>>>

InRanges(cp, ranges) ==
    \E k \in DOMAIN ranges : ranges[k][1] <= cp /\ cp <= ranges[k][2]

InRun(cp, run) == run[1] <= cp /\ cp <= run[2] /\ (cp - run[1]) % run[3] = 0

\* the lower case of a code point: U+0130 becomes i and U+0307
LowerCodePoint(cp) ==
    IF cp = 304 THEN <<105, 775>>
    ELSE IF \E k \in DOMAIN LowerCaseRuns : InRun(cp, LowerCaseRuns[k])
    THEN <<cp + LowerCaseRuns[CHOOSE k \in DOMAIN LowerCaseRuns :
                                 InRun(cp, LowerCaseRuns[k])][4]>>
    ELSE <<cp>>

\* the code points of a sequence of code units: a high surrogate and the low
\* surrogate after it are one code point
RECURSIVE CodePoints(_)
CodePoints(units) ==
    IF units = <<>> THEN <<>>
    ELSE IF /\ Len(units) >= 2
            /\ units[1] >= 55296 /\ units[1] <= 56319
            /\ units[2] >= 56320 /\ units[2] <= 57343
    THEN <<65536 + 1024 * (units[1] - 55296) + units[2] - 56320>>
             \o CodePoints(SubSeq(units, 3, Len(units)))
    ELSE <<units[1]>> \o CodePoints(Tail(units))

\* the code units of a sequence of code points
RECURSIVE CodeUnits(_)
CodeUnits(cps) ==
    IF cps = <<>> THEN <<>>
    ELSE IF Head(cps) >= 65536
    THEN <<55296 + (Head(cps) - 65536) \div 1024,
           56320 + ((Head(cps) - 65536) % 1024)>> \o CodeUnits(Tail(cps))
    ELSE <<Head(cps)>> \o CodeUnits(Tail(cps))

RECURSIVE SkipIgnorableBefore(_, _)
SkipIgnorableBefore(cps, j) ==
    IF j >= 1 /\ InRanges(cps[j], CaseIgnorableRanges)
    THEN SkipIgnorableBefore(cps, j - 1) ELSE j

RECURSIVE SkipIgnorableAfter(_, _)
SkipIgnorableAfter(cps, j) ==
    IF j <= Len(cps) /\ InRanges(cps[j], CaseIgnorableRanges)
    THEN SkipIgnorableAfter(cps, j + 1) ELSE j

\* a capital sigma is final when a cased letter comes before it and none
\* after it, the case-ignorable characters in between skipped
FinalSigma(cps, i) ==
    /\ SkipIgnorableBefore(cps, i - 1) >= 1
    /\ InRanges(cps[SkipIgnorableBefore(cps, i - 1)], CasedRanges)
    /\ \/ SkipIgnorableAfter(cps, i + 1) > Len(cps)
       \/ ~InRanges(cps[SkipIgnorableAfter(cps, i + 1)], CasedRanges)

RECURSIVE LowerFrom(_, _)
LowerFrom(cps, i) ==
    IF i > Len(cps) THEN <<>>
    ELSE (IF cps[i] = 931 /\ FinalSigma(cps, i) THEN <<962>>
          ELSE LowerCodePoint(cps[i])) \o LowerFrom(cps, i + 1)

\* s.toLowerCase(), s a sequence of characters
toLowerCase(s) ==
    LET units == CodeUnits(LowerFrom(CodePoints([i \in DOMAIN s |->
                                                   charCodeAt(s[i])]), 1))
    IN  [i \in DOMAIN units |-> fromCharCode(units[i])]

RECURSIVE SkipOthers(_)
SkipOthers(s) ==
    IF s # <<>> /\ Head(s) \notin HandleCharacters THEN SkipOthers(Tail(s)) ELSE s

\* replace(/[^a-z0-9]+/g, "-")
RECURSIVE Dashed(_)
Dashed(s) ==
    IF s = <<>> THEN <<>>
    ELSE IF Head(s) \in HandleCharacters THEN <<Head(s)>> \o Dashed(Tail(s))
    ELSE <<"-">> \o Dashed(SkipOthers(Tail(s)))

\* replace(/^-|-$/g, "")
Undashed(s) ==
    LET first == IF s # <<>> /\ Head(s) = "-" THEN Tail(s) ELSE s
    IN  IF first # <<>> /\ first[Len(first)] = "-"
        THEN SubSeq(first, 1, Len(first) - 1)
        ELSE first

\* substring(0, 100)
MaxHandle == 100

\* title.toLowerCase() throws when there is no title
generateHandleThrows(title) == title = UndefinedList

\* the handle of a title; where the call throws there is none
generateHandle(title) ==
    LET handle == IF generateHandleThrows(title) THEN <<>>
                  ELSE Undashed(Dashed(toLowerCase(title)))
    IN  IF Len(handle) > MaxHandle THEN SubSeq(handle, 1, MaxHandle) ELSE handle

\* Date.now(), in decimal
Millis(now) == Chars(ToString(DateTime(now))) \o <<"0", "0", "0">>

\* ------------------------------------------------------------------------
\* The tables
\* ------------------------------------------------------------------------
Shops == {"shopA", "shopB"}

\* the dates a request carries, and the instants at which one is handled
RouteDates == {"2026-01-01", "2026-01-02"}

\* value ? new Date(value) : null
ParsedDate(value) == IF TruthyStr(value) THEN value ELSE NullStr

\* the most item rows a bundle of the model gets
MaxStoredItems == 2

\* the most BundleCategory rows a run creates
MaxCategories == 2

\* the most requests a run sends
MaxRequests == 3

\* a new row gets an id no row has
FreeId(st) == CHOOSE id \in BundleIds : st[id] = NoRow

HasFreeId(st) == \E id \in BundleIds : st[id] = NoRow

\* findFirst({ where: { id, shop } })
FindOwned(st, id, shop) ==
    IF st[id] # NoRow /\ st[id].shop = shop THEN st[id] ELSE NoRow

\* findUnique({ where: { shop_handle: { shop, handle } } }) finds a row;
\* other: the id of a row that does not count
HandleTaken(st, shop, handle, other) ==
    \E b \in BundleIds \ {other} :
        st[b] # NoRow /\ st[b].shop = shop /\ st[b].handle = handle

\* handle = `${handle}-${Date.now()}`
Suffixed(handle, now) == handle \o <<"-">> \o Millis(now)

\* the instant of Date.now() counts only when the handle is taken
Instants(taken) == IF taken THEN RouteDates ELSE {"2026-01-01"}

\* a Bundle row with the columns at their defaults
StoredBundle(shop, title, handle, type, status) ==
    [shop |-> shop, title |-> title, handle |-> handle, type |-> type,
     status |-> status, price |-> NullNum, discountType |-> NullStr,
     minProducts |-> NullInt, maxProducts |-> NullInt,
     startDate |-> NullStr, endDate |-> NullStr,
     items |-> <<>>, tiers |-> <<>>, volumeRules |-> <<>>, categories |-> <<>>]

\* the id of the n-th BundleCategory row created
CategoryId(n) == "c" \o ToString(n)

CategoryIdsOfRow(row) ==
    IF row = NoRow THEN {}
    ELSE {row.categories[k].id : k \in DOMAIN row.categories}

\* the ids of the BundleCategory rows of the database
CategoryIdsOf(st) == UNION {CategoryIdsOfRow(st[b]) : b \in BundleIds}

ItemRow(itemId, categoryId) == [id |-> itemId, categoryId |-> categoryId]

CategoryRow(categoryId, name) == [id |-> categoryId, name |-> name]

\* BundleItem_categoryId_fkey, ON DELETE SET NULL
WithoutCategories(st, ids) ==
    [b \in BundleIds |->
        IF st[b] = NoRow THEN NoRow
        ELSE [st[b] EXCEPT
                !.items = [i \in DOMAIN st[b].items |->
                              IF st[b].items[i].categoryId \in ids
                              THEN ItemRow(st[b].items[i].id, NullStr)
                              ELSE st[b].items[i]]]]

\* prisma.bundle.delete: the items, tiers, rules and categories go with the
\* row (ON DELETE CASCADE)
DeleteRow(st, id) ==
    WithoutCategories([st EXCEPT ![id] = NoRow], CategoryIdsOfRow(st[id]))

\* BundleItem_categoryId_fkey
ForeignKeysHold(rows, st) ==
    \A i \in DOMAIN rows :
        rows[i].categoryId = NullStr \/ rows[i].categoryId \in CategoryIdsOf(st)

\* updateMany({ where: { categoryId: { not: null } }, data: { categoryId: null } })
Uncategorized(items) ==
    [i \in DOMAIN items |-> ItemRow(items[i].id, NullStr)]

\* ------------------------------------------------------------------------
\* The bodies of the requests
\* ------------------------------------------------------------------------
\* an item of a request body, a null in the place of one, and the key items
\* or categories absent from the body
BodyItem(productId, categoryId) ==
    [shopifyProductId |-> productId, categoryId |-> categoryId]
NullItem == [null |-> TRUE]
UndefinedItems == <<[undefined |-> TRUE]>>
UndefinedCategories == <<[undefined |-> TRUE]>>

\* undefined, for a column that holds an integer or null
UndefinedInt == <<0, 0>>

\* the key products absent from the form of a page
UndefinedProducts == <<[undefined |-> TRUE]>>

\* item.shopifyProductId of a null item throws a TypeError
HasNullItem(items) == \E i \in DOMAIN items : items[i] = NullItem

\* const { items = [], categories = [] } = body
ItemsOrEmpty(list) == IF list = UndefinedItems THEN <<>> ELSE list

\* the list as validateBundle reads it: undefined, or by its length
Lengthwise(list) ==
    IF list = UndefinedItems THEN UndefinedList
    ELSE [i \in DOMAIN list |-> "item"]

\* the rows nested in prisma.bundle.create: no categoryId
PlainItemRows(items) ==
    [i \in DOMAIN items |-> ItemRow(items[i].shopifyProductId, NullStr)]

\* the rows of createMany in the PUT: categoryId: item.categoryId
ItemRows(items) ==
    [i \in DOMAIN items |->
        ItemRow(items[i].shopifyProductId,
                IF items[i].categoryId = UndefinedStr THEN NullStr
                ELSE items[i].categoryId)]

\* the BundleCategory rows created for the categories of a body, count rows
\* having been created before
CategoryRows(categories, count) ==
    [k \in DOMAIN categories |->
        CategoryRow(CategoryId(count + k), categories[k].name)]

\* status = BundleStatus.DRAFT as the default of the destructuring
StatusOrDraft(status) == IF status = UndefinedStr THEN "draft" ELSE status

\* const { tiers = [], volumeRules = [] } = body
ListOrEmpty(list) == IF list = UndefinedList THEN <<>> ELSE list

\* a key of the data of prisma.bundle.create that is undefined is left out:
\* the column holds NULL
NumColumn(n) == IF n = UndefinedNum THEN NullNum ELSE n
StrColumn(s) == IF s = UndefinedStr THEN NullStr ELSE s
IntColumn(n) == IF n = UndefinedInt THEN NullInt ELSE n

\* ------------------------------------------------------------------------
\* POST /api/bundles
\* ------------------------------------------------------------------------
createValidation(body) ==
    validateBundle([title |-> body.title, type |-> body.type,
                    price |-> body.price,
                    discountType |-> body.discountType,
                    items |-> Lengthwise(ItemsOrEmpty(body.items)),
                    volumeRules |-> ListOrEmpty(body.volumeRules),
                    tiers |-> ListOrEmpty(body.tiers),
                    minProducts |-> body.minProducts,
                    maxProducts |-> body.maxProducts,
                    startDate |-> body.startDate,
                    endDate |-> body.endDate])

\* the data of prisma.bundle.create, the categories apart
createBundle(shop, body, handle) ==
    [StoredBundle(shop, body.title, handle, body.type, StatusOrDraft(body.status))
        EXCEPT !.price = NumColumn(body.price),
               !.discountType = StrColumn(body.discountType),
               !.minProducts = IntColumn(body.minProducts),
               !.maxProducts = IntColumn(body.maxProducts),
               !.startDate = ParsedDate(body.startDate),
               !.endDate = ParsedDate(body.endDate),
               !.items = PlainItemRows(ItemsOrEmpty(body.items)),
               !.tiers = ListOrEmpty(body.tiers),
               !.volumeRules = ListOrEmpty(body.volumeRules)]

\* ------------------------------------------------------------------------
\* The pages that create a bundle from their form
\* ------------------------------------------------------------------------
\* a product of the form data
Product(productId, price, productQuantity) ==
    [productId |-> productId, price |-> price, quantity |-> productQuantity]

ProductRows(products, categoryId) ==
    [i \in DOMAIN products |-> ItemRow(products[i].productId, categoryId)]

\* products.reduce((sum, p) => sum + p.price * p.quantity, 0)
RECURSIVE TotalOriginalPrice(_)
TotalOriginalPrice(products) ==
    IF products = <<>> THEN R(0)
    ELSE RAdd(TotalOriginalPrice(SubSeq(products, 1, Len(products) - 1)),
              RMul(products[Len(products)].price,
                   R(products[Len(products)].quantity)))

TruthyNum(n) == n.kind = "Infinity" \/ (n.kind = "finite" /\ n.m # <<>>)

\* x || null
OrNull(s) == IF TruthyStr(s) THEN s ELSE NullStr

\* status || BundleStatus.DRAFT
FormStatus(status) == IF TruthyStr(status) THEN status ELSE "draft"

\* the price the fixed bundle page stores
FormPrice(data) ==
    LET total == TotalOriginalPrice(data.products)
    IN  IF data.discountType = PERCENTAGE /\ TruthyNum(data.discountValue)
        THEN RMul(total, RSub(R(1), RDiv(data.discountValue, R(100))))
        ELSE IF data.discountType = FIXED_AMOUNT /\ TruthyNum(data.discountValue)
        THEN RSub(total, data.discountValue)
        ELSE IF data.fixedPrice = UndefinedNum THEN NullNum
        ELSE data.fixedPrice

\* the data of prisma.bundle.create of the new fixed bundle page; NoRow
\* where building it throws a TypeError: products.reduce of no products
newFixedBundle(shop, data, handle) ==
    IF data.products = UndefinedProducts THEN NoRow
    ELSE [StoredBundle(shop, data.title, handle, FIXED, FormStatus(data.status))
             EXCEPT !.price = FormPrice(data),
                    !.discountType = OrNull(data.discountType),
                    !.items = ProductRows(data.products, NullStr)]

\* of the new volume bundle page: products.map, volumeRules.map
newVolumeBundle(shop, data, handle) ==
    IF data.products = UndefinedProducts \/ data.volumeRules = UndefinedList
    THEN NoRow
    ELSE [StoredBundle(shop, data.title, handle, VOLUME, FormStatus(data.status))
             EXCEPT !.items = ProductRows(data.products, NullStr),
                    !.volumeRules = data.volumeRules]

\* of the new tiered bundle page: products.map, tiers.map
newTieredBundle(shop, data, handle) ==
    IF data.products = UndefinedProducts \/ data.tiers = UndefinedList
    THEN NoRow
    ELSE [StoredBundle(shop, data.title, handle, TIERED, FormStatus(data.status))
             EXCEPT !.items = ProductRows(data.products, NullStr),
                    !.tiers = data.tiers]

\* of the new mix and match page
newMixMatchBundle(shop, data, handle) ==
    [StoredBundle(shop, data.title, handle, MIX_MATCH, FormStatus(data.status))
        EXCEPT !.discountType = OrNull(data.discountType),
               !.minProducts = IntColumn(data.minProducts),
               !.maxProducts = IntColumn(data.maxProducts)]

\* a call of prisma a handler has yet to make; k: the category it is for
Call(name, k) == [call |-> name, k |-> k]

\* the calls of the loop of the new mix and match page
RECURSIVE MixMatchCalls(_, _)
MixMatchCalls(categories, k) ==
    IF k > Len(categories) THEN <<>>
    ELSE <<Call("bundleCategory.create", k)>>
         \o (IF categories[k].products # <<>>
             THEN <<Call("bundleItem.createMany", k)>> ELSE <<>>)
         \o MixMatchCalls(categories, k + 1)

\* ------------------------------------------------------------------------
\* PUT and DELETE /api/bundles/:id
\* ------------------------------------------------------------------------
\* if (title !== undefined) ... if (title !== existingBundle.title)
TitleChanges(existingBundle, body) ==
    body.title # UndefinedList /\ body.title # existingBundle.title

\* the bundle row with updateData written over it; no handle: UndefinedList
UpdatedRow(row, body, handle) ==
    [row EXCEPT
        !.title = IF body.title # UndefinedList THEN body.title ELSE @,
        !.handle = IF handle # UndefinedList THEN handle ELSE @,
        !.type = IF body.type # UndefinedStr THEN body.type ELSE @,
        !.status = IF body.status # UndefinedStr THEN body.status ELSE @,
        !.price = IF body.price # UndefinedNum THEN body.price ELSE @,
        !.discountType = IF body.discountType # UndefinedStr
                         THEN body.discountType ELSE @,
        !.minProducts = IF body.minProducts # UndefinedInt
                        THEN body.minProducts ELSE @,
        !.maxProducts = IF body.maxProducts # UndefinedInt
                        THEN body.maxProducts ELSE @,
        !.startDate = IF body.startDate # UndefinedStr
                      THEN ParsedDate(body.startDate) ELSE @,
        !.endDate = IF body.endDate # UndefinedStr
                    THEN ParsedDate(body.endDate) ELSE @]

\* validateBundle({ ...existingBundle, ...updateData, items, volumeRules, tiers })
putValidation(existingBundle, body) ==
    validateBundle([UpdatedRow(existingBundle, body, UndefinedList) EXCEPT
                       !.items = Lengthwise(body.items),
                       !.volumeRules = body.volumeRules,
                       !.tiers = body.tiers])

\* the calls of the loop over the categories of the body
RECURSIVE CategoryCalls(_, _)
CategoryCalls(categories, k) ==
    IF k > Len(categories) THEN <<>>
    ELSE <<Call("bundleCategory.create", k)>>
         \o (IF categories[k].items # <<>>
             THEN <<Call("bundleItem.createMany", k)>> ELSE <<>>)
         \o CategoryCalls(categories, k + 1)

\* the calls of the PUT after bundle.update, without a throw
PutCalls(body) ==
    (IF body.items # UndefinedItems
     THEN <<Call("bundleItem.deleteMany", 0)>>
          \o (IF body.items # <<>> THEN <<Call("bundleItem.createMany", 0)>>
              ELSE <<>>)
     ELSE <<>>)
    \o (IF body.tiers # UndefinedList
        THEN <<Call("bundleTier.deleteMany", 0)>>
             \o (IF body.tiers # <<>> THEN <<Call("bundleTier.createMany", 0)>>
                 ELSE <<>>)
        ELSE <<>>)
    \o (IF body.volumeRules # UndefinedList
        THEN <<Call("volumeRule.deleteMany", 0)>>
             \o (IF body.volumeRules # <<>>
                 THEN <<Call("volumeRule.createMany", 0)>> ELSE <<>>)
        ELSE <<>>)
    \o (IF body.categories # UndefinedCategories
        THEN <<Call("bundleItem.updateMany", 0),
               Call("bundleCategory.deleteMany", 0)>>
             \o CategoryCalls(body.categories, 1)
        ELSE <<>>)

\* what a call has done: the database after it, whether the call or the
\* code after it threw, the number of BundleCategory rows created so far and
\* the id of the category it created
Written(st, threw, count, categoryId) ==
    [store |-> st, threw |-> threw, categoryCount |-> count,
     categoryId |-> categoryId]

\* one call of the blocks of the PUT on the bundle id, gone: the bundle has
\* been deleted since findFirst; created: the id of createdCategory
putRelation(st, id, body, call, gone, count, created) ==
    CASE call.call = "bundleItem.deleteMany" ->
            Written(IF gone THEN st ELSE [st EXCEPT ![id].items = <<>>],
                    HasNullItem(body.items), count, created)
      [] call.call = "bundleItem.createMany" /\ call.k = 0 ->
            IF gone \/ ~ForeignKeysHold(ItemRows(body.items), st)
            THEN Written(st, TRUE, count, created)
            ELSE Written([st EXCEPT ![id].items = @ \o ItemRows(body.items)],
                         FALSE, count, created)
      [] call.call = "bundleTier.deleteMany" ->
            Written(IF gone THEN st ELSE [st EXCEPT ![id].tiers = <<>>],
                    FALSE, count, created)
      [] call.call = "bundleTier.createMany" ->
            IF gone THEN Written(st, TRUE, count, created)
            ELSE Written([st EXCEPT ![id].tiers = @ \o body.tiers],
                         FALSE, count, created)
      [] call.call = "volumeRule.deleteMany" ->
            Written(IF gone THEN st ELSE [st EXCEPT ![id].volumeRules = <<>>],
                    FALSE, count, created)
      [] call.call = "volumeRule.createMany" ->
            IF gone THEN Written(st, TRUE, count, created)
            ELSE Written([st EXCEPT ![id].volumeRules = @ \o body.volumeRules],
                         FALSE, count, created)
      [] call.call = "bundleItem.updateMany" ->
            Written(IF gone THEN st
                    ELSE [st EXCEPT ![id].items = Uncategorized(@)],
                    FALSE, count, created)
      [] call.call = "bundleCategory.deleteMany" ->
            Written(IF gone THEN st
                    ELSE WithoutCategories([st EXCEPT ![id].categories = <<>>],
                                           CategoryIdsOfRow(st[id])),
                    FALSE, count, created)
      [] call.call = "bundleCategory.create" ->
            IF gone THEN Written(st, TRUE, count, created)
            ELSE Written([st EXCEPT
                            ![id].categories =
                                Append(@, CategoryRow(CategoryId(count + 1),
                                          body.categories[call.k].name))],
                         FALSE, count + 1, CategoryId(count + 1))
      [] call.call = "bundleItem.createMany" /\ call.k > 0 ->
            IF gone \/ created \notin CategoryIdsOf(st)
            THEN Written(st, TRUE, count, created)
            ELSE Written([st EXCEPT
                            ![id].items =
                                @ \o [i \in DOMAIN body.categories[call.k].items |->
                                        ItemRow(body.categories[call.k].items[i]
                                                    .shopifyProductId, created)]],
                         FALSE, count, created)

\* ------------------------------------------------------------------------
\* POST /api/bundles/:id/schedule
\* ------------------------------------------------------------------------
\* the data of prisma.bundle.update
scheduleBundle(body, now) ==
    LET parsedStartDate == ParsedDate(body.startDate)
    IN  [startDate |-> IF body.activateNow THEN now ELSE parsedStartDate,
         endDate |-> ParsedDate(body.endDate),
         status |-> IF body.activateNow THEN "active"
                    ELSE IF parsedStartDate # NullStr
                            /\ DateTime(parsedStartDate) > DateTime(now)
                    THEN "scheduled"
                    ELSE "active"]

\* the requests the route answers 400
scheduleRefused(body) ==
    \/ ~body.activateNow /\ ~TruthyStr(body.startDate)
    \/ /\ TruthyStr(body.startDate)
       /\ TruthyStr(body.endDate)
       /\ DateTime(body.startDate) >= DateTime(body.endDate)

\* ------------------------------------------------------------------------
\* The copies
\* ------------------------------------------------------------------------
\* the suffix of the title of a copy
CopySuffix == <<" ", "(", "C", "o", "p", "y", ")">>

\* the copy the bundles page makes of a bundle:
\* handle: `${original.handle}-copy-${Date.now()}`
DuplicateOf(original, shop, now) ==
    [original EXCEPT !.shop = shop,
                     !.title = @ \o CopySuffix,
                     !.handle = @ \o <<"-", "c", "o", "p", "y", "-">>
                                  \o Millis(now),
                     !.status = "draft",
                     !.startDate = NullStr,
                     !.endDate = NullStr,
                     !.items = Uncategorized(@),
                     !.categories = <<>>]

\* body.title || `${originalBundle.title} (Copy)`
newTitle(originalBundle, body) ==
    IF body.title # UndefinedList /\ body.title # <<>> THEN body.title
    ELSE originalBundle.title \o CopySuffix

\* items.filter((item) => !item.categoryId)
RECURSIVE WithoutCategory(_)
WithoutCategory(items) ==
    IF items = <<>> THEN <<>>
    ELSE (IF Head(items).categoryId = NullStr THEN <<Head(items)>> ELSE <<>>)
         \o WithoutCategory(Tail(items))

\* items.filter((item) => item.categoryId === category.id), as rows of the
\* category created
RECURSIVE CategoryItems(_, _, _)
CategoryItems(items, categoryId, created) ==
    IF items = <<>> THEN <<>>
    ELSE (IF Head(items).categoryId = categoryId
          THEN <<ItemRow(Head(items).id, created)>> ELSE <<>>)
         \o CategoryItems(Tail(items), categoryId, created)

\* the data of prisma.bundle.create of POST /api/bundles/:id/duplicate
duplicateBundle(originalBundle, shop, title, handle) ==
    [originalBundle EXCEPT !.shop = shop,
                           !.title = title,
                           !.handle = handle,
                           !.status = "draft",
                           !.startDate = NullStr,
                           !.endDate = NullStr,
                           !.items = WithoutCategory(@),
                           !.categories = <<>>]

\* ------------------------------------------------------------------------
\* The requests
\* ------------------------------------------------------------------------
Item1 == BodyItem("item1", UndefinedStr)
Category1 == [name |-> "cat1", items |-> <<BodyItem("item2", UndefinedStr)>>]

\* a body of the POST that passes validateBundle
Volume ==
    [title |-> <<"B">>, type |-> VOLUME, status |-> UndefinedStr,
     price |-> UndefinedNum, discountType |-> UndefinedStr,
     minProducts |-> UndefinedInt, maxProducts |-> UndefinedInt,
     items |-> UndefinedItems, volumeRules |-> <<"rule1">>,
     tiers |-> UndefinedList,
     categories |-> UndefinedCategories, startDate |-> NullStr,
     endDate |-> NullStr]

CreateBodies ==
    {Volume,
     [Volume EXCEPT !.title = UndefinedList],
     [Volume EXCEPT !.volumeRules = UndefinedList],
     [Volume EXCEPT !.items = <<NullItem>>],
     [Volume EXCEPT !.status = "active", !.items = <<Item1>>,
                    !.categories = <<Category1>>],
     [Volume EXCEPT !.startDate = "2026-01-01", !.endDate = "2026-01-02"],
     [Volume EXCEPT !.startDate = "2026-01-01", !.endDate = "2026-01-01"]}

\* a body of the PUT that gives nothing
Unchanged ==
    [title |-> UndefinedList, type |-> UndefinedStr, status |-> UndefinedStr,
     price |-> UndefinedNum, discountType |-> UndefinedStr,
     minProducts |-> UndefinedInt, maxProducts |-> UndefinedInt,
     startDate |-> UndefinedStr, endDate |-> UndefinedStr,
     items |-> UndefinedItems, volumeRules |-> UndefinedList,
     tiers |-> UndefinedList, categories |-> UndefinedCategories]

\* a body that gives the volume rules, which validateBundle reads from the
\* body alone
WithRules == [Unchanged EXCEPT !.volumeRules = <<"rule1">>]

\* bodies that change columns, dates and relations
PutBodies ==
    {[Unchanged EXCEPT !.title = <<>>],
     [Unchanged EXCEPT !.status = "active"],
     [Unchanged EXCEPT !.type = FIXED, !.price = R(50), !.items = <<Item1>>],
     [Unchanged EXCEPT !.type = MIX_MATCH, !.minProducts = IntOf(3),
                       !.maxProducts = IntOf(1), !.items = <<Item1>>],
     WithRules,
     [WithRules EXCEPT !.title = <<"C">>],
     [WithRules EXCEPT !.status = "active"],
     [WithRules EXCEPT !.type = FIXED],
     [WithRules EXCEPT !.startDate = "2026-01-02"],
     [WithRules EXCEPT !.endDate = "2026-01-01"],
     [WithRules EXCEPT !.endDate = NullStr],
     [WithRules EXCEPT !.items = <<BodyItem("item1", "c1")>>],
     [WithRules EXCEPT !.items = <<NullItem>>],
     [WithRules EXCEPT !.tiers = <<"tier1">>],
     [WithRules EXCEPT !.categories = <<Category1>>]}

\* the methods of a request to /api/bundles/:id
Methods == {"PUT", "DELETE", "PATCH"}

\* the body counts for a PUT to a bundle the shop has
BundleBodies(method, existingBundle) ==
    IF method = "PUT" /\ existingBundle # NoRow THEN PutBodies ELSE {Unchanged}

ScheduleBody(startDate, endDate, activateNow) ==
    [startDate |-> startDate, endDate |-> endDate, activateNow |-> activateNow]

ScheduleBodies ==
    {ScheduleBody(NullStr, NullStr, TRUE),
     ScheduleBody(NullStr, "2026-01-01", TRUE),
     ScheduleBody(NullStr, NullStr, FALSE),
     ScheduleBody("2026-01-01", NullStr, FALSE),
     ScheduleBody("2026-01-01", "2026-01-01", FALSE),
     ScheduleBody("2026-01-01", "2026-01-02", FALSE),
     ScheduleBody("2026-01-02", NullStr, FALSE)}

DuplicateBodies == [title : {UndefinedList, <<"C">>}]

PageActions == {"delete", "duplicate", "activate", "deactivate", "archive"}

\* the form data of the pages that create a bundle
Product1 == Product("item1", R(10), 2)

FixedForms ==
    {[title |-> t, status |-> "active", discountType |-> PERCENTAGE,
      discountValue |-> R(50), fixedPrice |-> UndefinedNum,
      products |-> <<Product1>>] : t \in {UndefinedList, <<"B">>}}

\* the second form has no volumeRules
VolumeForms ==
    [title : {<<"B">>}, status : {"active"},
     volumeRules : {<<>>, UndefinedList}, products : {<<Product1>>}]

TieredForms ==
    [title : {UndefinedList, <<"B">>}, status : {UndefinedStr},
     tiers : {<<>>}, products : {<<Product1>>}]

\* the second form has no minProducts, maxProducts and categories
MixMatchForms ==
    {[title |-> <<"B">>, status |-> "active", discountType |-> NullStr,
      minProducts |-> IntOf(3), maxProducts |-> IntOf(1),
      categories |-> <<[name |-> "cat1", products |-> <<Product1>>]>>],
     [title |-> <<"B">>, status |-> "active", discountType |-> NullStr,
      minProducts |-> UndefinedInt, maxProducts |-> UndefinedInt,
      categories |-> UndefinedCategories]}

Request(route, shop, id, body) ==
    [route |-> route, shop |-> shop, id |-> id, body |-> body]

\* ------------------------------------------------------------------------
\* Specification: one call of calculateBundlePricing on any input
\* ------------------------------------------------------------------------
Init ==
    /\ bundle \in Bundles
    /\ selectedItems \in Selections
    /\ tierId \in (IF bundle.type = TIERED THEN TierIdValues ELSE {NullStr})
    /\ quantity \in Quantities
    /\ result = NoResult
    /\ applicableRule = NoRule
    /\ pc = "call"
    /\ SavingsIdle
    /\ ValidateIdle
    /\ RoutesIdle
    /\ ValidatorsIdle

Calculate ==
    /\ pc = "call"
    /\ result' = calculateBundlePricing(bundle, selectedItems, tierId, quantity)
    /\ applicableRule' =
           IF bundle.type = VOLUME
           THEN findApplicableVolumeRule(bundle.volumeRules,
                                         VolumeTotalQuantity(selectedItems, quantity))
           ELSE NoRule
    /\ pc' = "done"
    /\ UNCHANGED <<callVars, savingsVars, validateVars, validatorVars, routeVars>>

Next == Calculate

Spec == Init /\ [][Next]_vars

Done == pc = "done"

\* ------------------------------------------------------------------------
\* Specification: one call of formatSavings on any input
\* ------------------------------------------------------------------------
InitFormatSavings ==
    /\ PricingIdle
    /\ ValidateIdle
    /\ RoutesIdle
    /\ ValidatorsIdle
    /\ fsArgs \in [originalPrice : SavingsPriceValues,
                    discountedPrice : SavingsPriceValues,
                    showPercent : BOOLEAN]
    /\ fsResult = NoSavingsResult
    /\ pc = "call"

FormatSavings ==
    /\ pc = "call"
    /\ fsResult' = formatSavings(fsArgs.originalPrice, fsArgs.discountedPrice,
                                 fsArgs.showPercent)
    /\ pc' = "done"
    /\ UNCHANGED <<callVars, pricingVars, fsArgs, validateVars, validatorVars,
                   routeVars>>

NextFormatSavings == FormatSavings

SpecFormatSavings == InitFormatSavings /\ [][NextFormatSavings]_vars

\* ------------------------------------------------------------------------
\* Specification: one call of validateBundle on any configuration
\* ------------------------------------------------------------------------
InitValidateBundle ==
    /\ PricingIdle
    /\ SavingsIdle
    /\ ValidatorsIdle
    /\ RoutesIdle
    /\ config \in Configs
    /\ validation = NoValidation
    /\ pc = "call"

ValidateBundle ==
    /\ pc = "call"
    /\ validation' = validateBundle(config)
    /\ pc' = "done"
    /\ UNCHANGED <<callVars, pricingVars, savingsVars, config, validatorVars,
                   routeVars>>

NextValidateBundle == ValidateBundle

SpecValidateBundle == InitValidateBundle /\ [][NextValidateBundle]_vars

\* ------------------------------------------------------------------------
\* Specification: one request, sent to both selection-time validators
\* ------------------------------------------------------------------------
InitValidators ==
    /\ bundle \in StoredBundles
    /\ selectedItems \in ValidatorSelections
    /\ tierId \in (IF bundle.type = TIERED THEN ValidatorTierIds ELSE {NullStr})
    /\ quantity \in Quantities
    /\ inventory = NoInventory
    /\ adminResponse = NoAdminResponse
    /\ storefrontResponse = NoStorefrontResponse
    /\ storefrontCall = NotCalled
    /\ result = NoResult
    /\ applicableRule = NoRule
    /\ SavingsIdle
    /\ ValidateIdle
    /\ RoutesIdle
    /\ pc = "call"

AdminValidate ==
    /\ pc = "call"
    /\ adminResponse = NoAdminResponse
    /\ adminResponse' = adminValidate(bundle, selectedItems, tierId, quantity)
    /\ pc' = IF storefrontCall.at = "done" THEN "done" ELSE "call"
    /\ UNCHANGED <<callVars, pricingVars, savingsVars, validateVars,
                   inventory, storefrontResponse, storefrontCall, routeVars>>

\* The storefront validator reads at three instants, with an await before
\* each: the bundle (prisma.bundle.findFirst), the clock (new Date() in
\* isBundleScheduleActive) and the inventory (admin.graphql).  Between them
\* other requests are served.

\* findFirst with status in (active, scheduled): the row, or null
StorefrontFind ==
    /\ pc = "call"
    /\ storefrontCall.at = "start"
    /\ IF bundle.status \notin {"active", "scheduled"}
       THEN /\ storefrontResponse' = StorefrontRefusal("Bundle not found")
            /\ storefrontCall' = [at |-> "done", disturbed |-> FALSE,
                                  bundle |-> bundle, now |-> 0]
            /\ pc' = IF adminResponse # NoAdminResponse THEN "done" ELSE "call"
       ELSE /\ storefrontCall' = [at |-> "found", disturbed |-> FALSE,
                                  bundle |-> bundle, now |-> 0]
            /\ UNCHANGED <<storefrontResponse, pc>>
    /\ UNCHANGED <<callVars, pricingVars, savingsVars, validateVars,
                   inventory, adminResponse, routeVars>>

\* isBundleScheduleActive(bundle) on the row that was found; the checks of
\* the selection follow without an await, and the inventory is asked when
\* the selection names a variant
StorefrontSchedule ==
    /\ pc = "call"
    /\ storefrontCall.at = "found"
    /\ \E now \in NowValues :
          IF \/ ~isBundleScheduleActive(storefrontCall.bundle, now)
             \/ InventoryVariantIds(selectedItems) = <<>>
          THEN /\ storefrontResponse' =
                      storefrontValidate(storefrontCall.bundle, selectedItems,
                                         tierId, quantity, inventory, now)
               /\ storefrontCall' = [storefrontCall EXCEPT !.at = "done",
                                                           !.now = now]
               /\ pc' = IF adminResponse # NoAdminResponse THEN "done"
                        ELSE "call"
          ELSE /\ storefrontCall' = [storefrontCall EXCEPT !.at = "fetching",
                                                           !.now = now]
               /\ UNCHANGED <<storefrontResponse, pc>>
    /\ UNCHANGED <<callVars, pricingVars, savingsVars, validateVars,
                   inventory, adminResponse, routeVars>>

\* the response on each stock the shop can have; calculateBundlePricing does
\* not read the stock
StorefrontStock(pricing) ==
    \E stock \in InventoryValues :
        /\ inventory' = stock
        /\ storefrontResponse' =
               storefrontAnswer(storefrontCall.bundle, selectedItems, tierId,
                                quantity, stock, storefrontCall.now, pricing)

\* the answer of admin.graphql, which is the stock of the shop at that
\* instant, and the response
StorefrontInventory ==
    /\ pc = "call"
    /\ storefrontCall.at = "fetching"
    /\ StorefrontStock(calculateBundlePricing(storefrontCall.bundle,
                                              selectedItems, tierId, quantity))
    /\ storefrontCall' = [storefrontCall EXCEPT !.at = "done"]
    /\ pc' = IF adminResponse # NoAdminResponse THEN "done" ELSE "call"
    /\ UNCHANGED <<callVars, pricingVars, savingsVars, validateVars,
                   adminResponse, routeVars>>

\* what another request does while the storefront validator waits, once in
\* a request: the bundle is deactivated (status draft)
BundleDeactivated ==
    /\ pc = "call"
    /\ storefrontCall.at \in {"found", "fetching"}
    /\ ~storefrontCall.disturbed
    /\ bundle' = [bundle EXCEPT !.status = "draft"]
    /\ storefrontCall' = [storefrontCall EXCEPT !.disturbed = TRUE]
    /\ UNCHANGED <<selectedItems, tierId, quantity, pricingVars, savingsVars,
                   validateVars, inventory, adminResponse, storefrontResponse,
                   pc, routeVars>>

NextValidators ==
    \/ AdminValidate
    \/ StorefrontFind
    \/ StorefrontSchedule
    \/ StorefrontInventory
    \/ BundleDeactivated

SpecValidators == InitValidators /\ [][NextValidators]_vars

\* ------------------------------------------------------------------------
\* GET /api/inventory/check
\* ------------------------------------------------------------------------
\* parseInt of the strings the quantity parameter takes
parseInt(s) ==
    CASE s = "0" -> 0
      [] s = "-1" -> -1
      [] s = "1" -> 1
      [] s = "2" -> 2

\* a count of bundles, or Infinity
Infinity == [finite |-> FALSE, value |-> 0]

Finite(n) == [finite |-> TRUE, value |-> n]

\* a < b
Less(a, b) ==
    IF ~a.finite THEN FALSE
    ELSE IF ~b.finite THEN TRUE
    ELSE a.value < b.value

\* a node of the inventory answer that is null
NoCheckNode == [id |-> NullStr]

\* limitingItem: null
NoItemStatus == [variantId |-> NullStr]

CheckNode(productId, variantId, inventoryQuantity) ==
    [id |-> GidPrefix \o variantId, productId |-> ProductGidPrefix \o productId,
     inventoryQuantity |-> inventoryQuantity]

\* items.find(i => i.variantId === limitingItem.variantId).isLimiting = false
RECURSIVE ResetLimiting(_, _)
ResetLimiting(items, variantId) ==
    IF items = <<>> THEN <<>>
    ELSE IF Head(items).variantId = variantId
    THEN <<[Head(items) EXCEPT !.isLimiting = FALSE]>> \o Tail(items)
    ELSE <<Head(items)>> \o ResetLimiting(Tail(items), variantId)

\* the loop over inventoryJson.data.nodes, from the node at the head
RECURSIVE ProcessNodes(_, _, _, _)
ProcessNodes(nodes, selected, qty, acc) ==
    IF nodes = <<>> THEN acc
    ELSE IF Head(nodes) = NoCheckNode
    THEN ProcessNodes(Tail(nodes), selected, qty, acc)
    ELSE
      LET node == Head(nodes)
          found == SelectSeq(selected,
                       LAMBDA item :
                           \/ node.id = item.variantId
                           \/ node.id = GidPrefix \o Interpolated(item.variantId)
                           \/ node.productId = item.productId
                           \/ node.productId =
                                  ProductGidPrefix \o Interpolated(item.productId))
          requiredQuantity ==
              (IF found # <<>> /\ Head(found).quantity # 0
               THEN Head(found).quantity ELSE 1) * qty
          availableQuantity ==
              IF TruthyInt(node.inventoryQuantity) THEN node.inventoryQuantity[1]
              ELSE 0
          bundlesAvailable ==
              IF requiredQuantity > 0
              THEN Finite(availableQuantity \div requiredQuantity)
              ELSE Infinity
          limits == Less(bundlesAvailable, acc.minAvailableBundles)
          itemStatus ==
              [productId |-> node.productId, variantId |-> node.id,
               available |-> availableQuantity, required |-> requiredQuantity,
               isLimiting |-> limits]
          items == IF limits /\ acc.limitingItem # NoItemStatus
                   THEN ResetLimiting(acc.items, acc.limitingItem.variantId)
                   ELSE acc.items
      IN  ProcessNodes(Tail(nodes), selected, qty,
              [items |-> Append(items, itemStatus),
               minAvailableBundles |->
                   IF limits THEN bundlesAvailable ELSE acc.minAvailableBundles,
               limitingItem |-> IF limits THEN itemStatus ELSE acc.limitingItem])

NothingAvailable ==
    [status |-> 200, isAvailable |-> FALSE, availableQuantity |-> 0,
     items |-> <<>>, limitingItem |-> NoItemStatus]

\* productId.startsWith("gid://") ? productId : `gid://shopify/Product/${productId}`
ToProductGid(id) == IF StartsWithGid(id) THEN id ELSE ProductGidPrefix \o id

\* the ids GetProducts adds: of each product it finds that has a variant,
\* the id of the first one
RECURSIVE FirstVariantIds(_, _)
FirstVariantIds(productIds, firstVariant) ==
    IF productIds = <<>> THEN <<>>
    ELSE (IF firstVariant[Head(productIds)] # NullStr
          THEN <<firstVariant[Head(productIds)]>> ELSE <<>>)
         \o FirstVariantIds(Tail(productIds), firstVariant)

\* the ids of the variants the items name
NamedVariantIds(selected) ==
    LET withVariant == SelectSeq(selected, LAMBDA item : TruthyStr(item.variantId))
    IN  [i \in DOMAIN withVariant |-> ToGid(withVariant[i].variantId)]

\* the ids of the products of the items that name no variant
ProductIdsWithoutVariants(selected) ==
    LET withoutVariant ==
            SelectSeq(selected, LAMBDA item : ~TruthyStr(item.variantId))
    IN  [i \in DOMAIN withoutVariant |-> ToProductGid(withoutVariant[i].productId)]

\* the ids of the inventory query: the variants the items name, then the
\* first variants of the products of the items that name none
CheckVariantIds(selected, firstVariant) ==
    NamedVariantIds(selected)
        \o FirstVariantIds(ProductIdsWithoutVariants(selected), firstVariant)

\* parseInt(url.searchParams.get("quantity") || "1")
CheckQuantity(quantityParam) ==
    parseInt(IF TruthyStr(quantityParam) THEN quantityParam ELSE "1")

\* the code from the answer of the inventory query to the response
CheckAnswer(selected, qty, variantIds, stock) ==
    LET nodes == [i \in DOMAIN variantIds |-> stock[variantIds[i]]]
        acc == ProcessNodes(nodes, selected, qty,
                   [items |-> <<>>, minAvailableBundles |-> Infinity,
                    limitingItem |-> NoItemStatus])
    IN  IF Len(acc.items) = 0 THEN NothingAvailable
        ELSE [status |-> 200,
              isAvailable |-> Less(Finite(0), acc.minAvailableBundles),
              availableQuantity |-> IF acc.minAvailableBundles = Infinity THEN 0
                                    ELSE acc.minAvailableBundles.value,
              items |-> acc.items,
              limitingItem |-> acc.limitingItem]

\* the loader, for selectedItems given in the query and no bundleId, the
\* first variant GetProducts answers for each product id and what the
\* inventory query answers for each variant id
loader(quantityParam, selected, firstVariant, stock) ==
    IF Len(selected) = 0 THEN [status |-> 400]
    ELSE IF Len(CheckVariantIds(selected, firstVariant)) = 0 THEN NothingAvailable
    ELSE CheckAnswer(selected, CheckQuantity(quantityParam),
                     CheckVariantIds(selected, firstVariant), stock)

\* bundle.items.map(item => ({productId, variantId: item.shopifyVariantId || "",
\* quantity}))
ItemsOfBundle(items) ==
    [i \in DOMAIN items |->
        [productId |-> items[i].shopifyProductId,
         variantId |-> IF TruthyStr(items[i].shopifyVariantId)
                       THEN items[i].shopifyVariantId ELSE "",
         quantity |-> items[i].quantity]]

\* the data of bundleInventorySnapshot.create
Snapshot(bundleId, answer) ==
    [bundleId |-> bundleId,
     isAvailable |-> answer.isAvailable,
     availableCount |-> answer.availableQuantity,
     limitingProduct |->
         IF answer.limitingItem # NoItemStatus
            /\ TruthyStr(answer.limitingItem.productId)
         THEN answer.limitingItem.productId ELSE NullStr,
     limitingVariant |->
         IF TruthyStr(answer.limitingItem.variantId)
         THEN answer.limitingItem.variantId ELSE NullStr,
     limitingStock |->
         IF answer.limitingItem # NoItemStatus
            /\ answer.limitingItem.available # 0
         THEN IntOf(answer.limitingItem.available) ELSE NullInt]

\* the requests to the inventory check
QuantityParams == {NullStr, "", "0", "-1", "1", "2"}

\* items that name a variant, and items of product P1 that name none
CheckItemValues ==
    {[productId |-> i[1], variantId |-> i[2], quantity |-> q] :
        i \in {<<"P1", "V1">>, <<"P2", "V3">>, <<"P1", "">>,
               <<"P1", NullStr>>},
        q \in ItemQuantityValues}

CheckSelections == SeqsUpTo(CheckItemValues, MaxSelected)

\* the bundleId parameter: absent, a stored bundle, an id that is not stored
CheckBundleIds == {NullStr, "b1", "b2"}

CheckRequests ==
    {Request("GET /api/inventory/check", shop, bundleId,
             [quantity |-> q, selectedItems |-> selected]) :
        shop \in Shops, bundleId \in CheckBundleIds, q \in QuantityParams,
        selected \in CheckSelections}

\* a row of Bundle with the columns the two loaders read, and its items
InventoryRow(shop, status, trackInventory, title, items) ==
    [shop |-> shop, status |-> status, trackInventory |-> trackInventory,
     title |-> title, items |-> items]

CheckedRow(items) == InventoryRow("shopA", "active", TRUE, "Bundle 1", items)

StoredItem(productId, variantId, qty) ==
    [shopifyProductId |-> productId, shopifyVariantId |-> variantId,
     quantity |-> qty]

\* bundle b1 of shopA: with no item, with one item, and with an item that
\* names no variant
CheckStores ==
    {[EmptyStore EXCEPT !.b1 = CheckedRow(items)] :
        items \in {<<>>, <<StoredItem("P1", "V1", 2)>>,
                   <<StoredItem("P1", NullStr, 1), StoredItem("P2", "V3", 1)>>}}

\* what the inventory answers: V1 unknown, sold out or in stock, V3 in stock
CheckStocks ==
    {[g \in GidVariantIds |->
         IF g = GidPrefix \o "V1" THEN v1
         ELSE IF g = GidPrefix \o "V2" THEN CheckNode("P1", "V2", IntOf(5))
         ELSE CheckNode("P2", "V3", IntOf(5))] :
     v1 \in {NoCheckNode, CheckNode("P1", "V1", NullInt),
             CheckNode("P1", "V1", IntOf(0)), CheckNode("P1", "V1", IntOf(1)),
             CheckNode("P1", "V1", IntOf(5))}}

\* what GetProducts answers: the first variant of P1 is V1 or V2, or P1 is
\* not found; the first variant of P2 is V3
CheckFirstVariants ==
    {[p \in {ProductGidPrefix \o id : id \in ProductIds} |->
         IF p = ProductGidPrefix \o "P1" THEN v ELSE GidPrefix \o "V3"] :
     v \in {GidPrefix \o "V1", GidPrefix \o "V2", NullStr}}

\* ------------------------------------------------------------------------
\* Specification: one request to the inventory check or the inventory sync
\* ------------------------------------------------------------------------
\* The loader awaits prisma.bundle.findFirst, the GetProducts query, the
\* GetInventory query and prisma.bundleInventorySnapshot.create: it takes
\* one step for each, made of the call and of the code that runs from its
\* answer to the next call.

\* what the loader keeps between two calls: the next call, the items it
\* checks, the variant ids it has collected and the response it has built
Loading(at, selected, variantIds, answer) ==
    [at |-> at, selectedItems |-> selected, variantIds |-> variantIds,
     response |-> answer]

\* the end of a step: what the loader keeps, and what it answers (a status
\* of 0: not yet)
Outcome(next, answer) == [flight |-> next, response |-> answer]

\* from the variant ids to the inventory query
CheckIds(selected, variantIds) ==
    IF Len(variantIds) = 0 THEN Outcome(NoFlight, NothingAvailable)
    ELSE Outcome(Loading("GetInventory", selected, variantIds, NoResponse),
                 NoResponse)

\* from the items to the next call
CheckItems(selected) ==
    IF Len(selected) = 0 THEN Outcome(NoFlight, [status |-> 400])
    ELSE IF Len(ProductIdsWithoutVariants(selected)) > 0
    THEN Outcome(Loading("GetProducts", selected, NamedVariantIds(selected),
                         NoResponse),
                 NoResponse)
    ELSE CheckIds(selected, NamedVariantIds(selected))

\* from the answer of the inventory query to the next call
CheckStock(bundleId, selected, variantIds, answer) ==
    IF answer # NothingAvailable /\ TruthyStr(bundleId)
    THEN Outcome(Loading("snapshot", selected, variantIds, answer), NoResponse)
    ELSE Outcome(NoFlight, answer)

\* GET /api/inventory/sync: the code of the loader between its calls
\* skip: 100 in the clean-up: the snapshots that are kept for each bundle
KeptSnapshots == 100

\* the rows of Bundle in the order findMany returns them
TableOrder == <<"b1", "b2">>

\* where: {shop, status: {in: ["active", "scheduled"]}, trackInventory: true},
\* and id: bundleId when the parameter is given
Synced(row, id, shop, bundleId) ==
    /\ row.shop = shop
    /\ row.status \in {"active", "scheduled"}
    /\ row.trackInventory
    /\ TruthyStr(bundleId) => id = bundleId

\* prisma.bundle.findMany({where, include: {items: true}})
RECURSIVE FindMany(_, _, _, _)
FindMany(ids, rows, shop, bundleId) ==
    IF ids = <<>> THEN <<>>
    ELSE (IF Synced(rows[Head(ids)], Head(ids), shop, bundleId)
          THEN <<[id |-> Head(ids), title |-> rows[Head(ids)].title,
                  items |-> rows[Head(ids)].items]>>
          ELSE <<>>)
         \o FindMany(Tail(ids), rows, shop, bundleId)

\* allVariantIds.add(variantId) for the items of a bundle that name a variant
RECURSIVE AddVariantIds(_, _)
AddVariantIds(ids, items) ==
    IF items = <<>> THEN ids
    ELSE AddVariantIds(
             IF /\ TruthyStr(Head(items).shopifyVariantId)
                /\ \A k \in DOMAIN ids :
                       ids[k] # ToGid(Head(items).shopifyVariantId)
             THEN Append(ids, ToGid(Head(items).shopifyVariantId))
             ELSE ids,
             Tail(items))

\* Array.from(allVariantIds)
RECURSIVE AllVariantIds(_, _)
AllVariantIds(ids, bundles) ==
    IF bundles = <<>> THEN ids
    ELSE AllVariantIds(AddVariantIds(ids, Head(bundles).items), Tail(bundles))

\* inventoryMap: no entry for any id
NoInventoryMap == [g \in GidVariantIds |-> NullInt]

\* inventoryMap after the batch: unchanged when the answer has errors, else
\* node.inventoryQuantity || 0 at the id of every node that is not null
InventoryMap(variantIds, errors, stock) ==
    [g \in GidVariantIds |->
        IF /\ ~errors
           /\ \E k \in DOMAIN variantIds :
                  variantIds[k] = g /\ stock[g] # NoCheckNode /\ stock[g].id = g
        THEN IntOf(IF TruthyInt(stock[g].inventoryQuantity)
                   THEN stock[g].inventoryQuantity[1] ELSE 0)
        ELSE NullInt]

\* inventoryMap.get(variantId) || 0
Available(inventoryMap, variantId) ==
    IF variantId \in DOMAIN inventoryMap /\ TruthyInt(inventoryMap[variantId])
    THEN inventoryMap[variantId][1] ELSE 0

\* required > 0 ? Math.floor(available / required) : Infinity
BundlesAvailable(available, required) ==
    IF required > 0 THEN Finite(available \div required) ELSE Infinity

\* minAvailableBundles = Infinity, and no limiting item
NoLimit ==
    [minAvailableBundles |-> Infinity, limitingProduct |-> NullStr,
     limitingVariant |-> NullStr, limitingStock |-> NullInt]

\* if (bundlesAvailable < minAvailableBundles) { ... }
LimitedBy(item, available, limit) ==
    IF Less(BundlesAvailable(available, item.quantity),
            limit.minAvailableBundles)
    THEN [minAvailableBundles |-> BundlesAvailable(available, item.quantity),
          limitingProduct |-> item.shopifyProductId,
          limitingVariant |-> item.shopifyVariantId,
          limitingStock |-> IntOf(available)]
    ELSE limit

\* the loop over bundle.items, from the item at the head
RECURSIVE Limits(_, _, _)
Limits(items, inventoryMap, limit) ==
    IF items = <<>> THEN limit
    ELSE IF ~TruthyStr(Head(items).shopifyVariantId)
    THEN Limits(Tail(items), inventoryMap, limit)
    ELSE Limits(Tail(items), inventoryMap,
                LimitedBy(Head(items),
                          Available(inventoryMap,
                                    ToGid(Head(items).shopifyVariantId)),
                          limit))

\* the data of bundleInventorySnapshot.create for a limit
SnapshotOf(bundleId, limit) ==
    [bundleId |-> bundleId,
     isAvailable |-> Less(Finite(0), limit.minAvailableBundles),
     availableCount |-> IF limit.minAvailableBundles = Infinity THEN 0
                        ELSE limit.minAvailableBundles.value,
     limitingProduct |-> limit.limitingProduct,
     limitingVariant |-> limit.limitingVariant,
     limitingStock |-> limit.limitingStock]

SyncSnapshot(found, inventoryMap) ==
    SnapshotOf(found.id, Limits(found.items, inventoryMap, NoLimit))

\* the row a create adds to the table: the data and a new id
CreatedRow(table, data) ==
    [id |-> IF table = <<>> THEN 1 ELSE table[Len(table)].id + 1,
     bundleId |-> data.bundleId,
     isAvailable |-> data.isAvailable,
     availableCount |-> data.availableCount,
     limitingProduct |-> data.limitingProduct,
     limitingVariant |-> data.limitingVariant,
     limitingStock |-> data.limitingStock]

\* the rows of the bundle, the newest first
RECURSIVE NewestFirst(_, _)
NewestFirst(table, bundleId) ==
    IF table = <<>> THEN <<>>
    ELSE NewestFirst(Tail(table), bundleId)
         \o (IF Head(table).bundleId = bundleId THEN <<Head(table)>> ELSE <<>>)

\* findMany({where: {bundleId}, orderBy: {checkedAt: "desc"}, skip: 100,
\* select: {id: true}}), as the set of the ids
OldSnapshots(table, bundleId) ==
    {NewestFirst(table, bundleId)[k].id :
        k \in (KeptSnapshots + 1)..Len(NewestFirst(table, bundleId))}

\* what the loader keeps between two calls: the next call, the bundles found,
\* the variant ids, inventoryMap, the index of the bundle the loops are at,
\* syncResults and the ids of oldSnapshots
Syncing(at, bundles, variantIds, inventoryMap, index, syncResults, oldSnapshots) ==
    [at |-> at, bundles |-> bundles, variantIds |-> variantIds,
     inventoryMap |-> inventoryMap, index |-> index,
     syncResults |-> syncResults, oldSnapshots |-> oldSnapshots]

SyncedBundle(f) == f.bundles[f.index]

\* from the bundles found to the inventory query
SyncIds(bundles, variantIds) ==
    IF Len(variantIds) = 0
    THEN Outcome(NoFlight,
                 [status |-> 200, message |-> PlainMsg("No variants to sync"),
                  synced |-> 0])
    ELSE Outcome(Syncing("inventory", bundles, variantIds, NoInventoryMap, 0,
                         <<>>, {}),
                 NoResponse)

SyncBundles(bundles) ==
    IF Len(bundles) = 0
    THEN Outcome(NoFlight,
                 [status |-> 200, message |-> PlainMsg("No bundles to sync"),
                  synced |-> 0])
    ELSE SyncIds(bundles, AllVariantIds(<<>>, bundles))

\* syncResults.push(...), then the next bundle or the clean-up
SyncCreated(f, snapshot) ==
    [f EXCEPT !.at = IF f.index < Len(f.bundles) THEN "create" ELSE "findOld",
              !.index = IF f.index < Len(f.bundles) THEN f.index + 1 ELSE 1,
              !.syncResults =
                  Append(f.syncResults,
                         [bundleId |-> SyncedBundle(f).id,
                          bundleTitle |-> SyncedBundle(f).title,
                          isAvailable |-> snapshot.isAvailable,
                          availableCount |-> snapshot.availableCount,
                          limitingProduct |-> snapshot.limitingProduct])]

\* the next bundle of the clean-up, or the response
SyncNext(f) ==
    IF f.index < Len(f.bundles)
    THEN Outcome([f EXCEPT !.at = "findOld", !.index = f.index + 1,
                           !.oldSnapshots = {}],
                 NoResponse)
    ELSE Outcome(NoFlight,
                 [status |-> 200,
                  message |-> Msg("Synced inventory for ",
                                  IntOf(Len(f.bundles)), " bundles"),
                  synced |-> Len(f.bundles),
                  results |-> f.syncResults])

\* the bundleId parameter of the sync: absent, empty, a bundle
SyncBundleIds == {NullStr, "", "b1", "b2"}

SyncRequests ==
    {Request("GET /api/inventory/sync", shop, bundleId, <<>>) :
        shop \in Shops, bundleId \in SyncBundleIds}

\* bundle b1 as the inventory check has it; bundle b2 absent, tracked, with
\* an item of quantity 0, a draft, not tracked, or of another shop
SyncStores ==
    {[checked EXCEPT !.b2 = b2] :
        checked \in CheckStores,
        b2 \in {NoRow,
                InventoryRow("shopA", "active", TRUE, "Bundle 2",
                             <<StoredItem("P2", "V3", 1),
                               StoredItem("P1", "V1", 1)>>),
                InventoryRow("shopA", "scheduled", TRUE, "Bundle 2",
                             <<StoredItem("P2", "V3", 0)>>),
                InventoryRow("shopA", "draft", TRUE, "Bundle 2",
                             <<StoredItem("P2", "V3", 1)>>),
                InventoryRow("shopA", "active", FALSE, "Bundle 2",
                             <<StoredItem("P2", "V3", 1)>>),
                InventoryRow("shopB", "active", TRUE, "Bundle 2",
                             <<StoredItem("P2", "V3", 1)>>)}}

\* a row of an earlier sync of b1 (one item P1/V1 of quantity 2, stock 2)
OlderSnapshot(id) ==
    [id |-> id, bundleId |-> "b1", isAvailable |-> TRUE, availableCount |-> 1,
     limitingProduct |-> "P1", limitingVariant |-> "V1",
     limitingStock |-> IntOf(2)]

\* the table: empty, and with one row less than are kept, or as many, of b1
SnapshotTables ==
    {[id \in 1..n |-> OlderSnapshot(id)] :
        n \in {0, KeptSnapshots - 1, KeptSnapshots}}

InitInventoryCheck ==
    /\ PricingIdle
    /\ SavingsIdle
    /\ ValidateIdle
    /\ ValidatorsIdle
    /\ flight = Idle
    /\ categoryCount = 0
    /\ served = 0
    /\ snapshots \in SnapshotTables
    /\ \/ request \in CheckRequests /\ store \in CheckStores
       \/ request \in SyncRequests /\ store \in SyncStores
    /\ response = NoResponse
    /\ pc = "call"

\* a step of the loader ends with this outcome
CheckStep(outcome) ==
    /\ flight' = [flight EXCEPT !.h1 = outcome.flight]
    /\ response' = outcome.response
    /\ pc' = IF outcome.flight = NoFlight THEN "done" ELSE "call"
    /\ UNCHANGED <<callVars, pricingVars, savingsVars, validateVars,
                   validatorVars, store, request, categoryCount, served>>

\* the parameters of the request, up to the first call
CheckStart ==
    /\ pc = "call"
    /\ flight.h1 = NoFlight
    /\ request.route = "GET /api/inventory/check"
    /\ CheckStep(IF TruthyStr(request.id) /\ Len(request.body.selectedItems) = 0
                 THEN Outcome(Loading("findFirst", <<>>, <<>>, NoResponse),
                              NoResponse)
                 ELSE CheckItems(request.body.selectedItems))
    /\ UNCHANGED snapshots

\* prisma.bundle.findFirst({where: {id: bundleId, shop}, include: {items}})
CheckFindFirst ==
    /\ pc = "call"
    /\ flight.h1.at = "findFirst"
    /\ CheckStep(IF \/ request.id \notin BundleIds
                    \/ store[request.id].shop # request.shop
                 THEN Outcome(NoFlight, [status |-> 404])
                 ELSE CheckItems(ItemsOfBundle(store[request.id].items)))
    /\ UNCHANGED snapshots

\* the GetProducts query: the first variant of each product it finds
CheckGetProducts ==
    /\ pc = "call"
    /\ flight.h1.at = "GetProducts"
    /\ \E firstVariant \in CheckFirstVariants :
          CheckStep(CheckIds(flight.h1.selectedItems,
                             flight.h1.variantIds
                                 \o FirstVariantIds(
                                        ProductIdsWithoutVariants(
                                            flight.h1.selectedItems),
                                        firstVariant)))
    /\ UNCHANGED snapshots

\* the GetInventory query, which answers errors or the stock of the shop at
\* that instant
CheckGetInventory ==
    /\ pc = "call"
    /\ flight.h1.at = "GetInventory"
    /\ \E errors \in BOOLEAN, stock \in CheckStocks :
          CheckStep(IF errors THEN Outcome(NoFlight, [status |-> 500])
                    ELSE CheckStock(request.id, flight.h1.selectedItems,
                                    flight.h1.variantIds,
                                    CheckAnswer(flight.h1.selectedItems,
                                                CheckQuantity(request.body.quantity),
                                                flight.h1.variantIds, stock)))
    /\ UNCHANGED snapshots

\* prisma.bundleInventorySnapshot.create, and the response
CheckSnapshot ==
    /\ pc = "call"
    /\ flight.h1.at = "snapshot"
    /\ snapshots' = Append(snapshots,
                           CreatedRow(snapshots,
                                      Snapshot(request.id, flight.h1.response)))
    /\ CheckStep(Outcome(NoFlight, flight.h1.response))

\* The loader of the inventory sync awaits prisma.bundle.findMany, the
\* GetInventory query, prisma.bundleInventorySnapshot.create for each bundle
\* and, for each bundle again, prisma.bundleInventorySnapshot.findMany and
\* deleteMany.

\* the parameters of the request, up to the first call
SyncStart ==
    /\ pc = "call"
    /\ flight.h1 = NoFlight
    /\ request.route = "GET /api/inventory/sync"
    /\ CheckStep(Outcome(Syncing("findMany", <<>>, <<>>, NoInventoryMap, 0,
                                 <<>>, {}),
                         NoResponse))
    /\ UNCHANGED snapshots

\* prisma.bundle.findMany, and the variant ids of the bundles found
SyncFindMany ==
    /\ pc = "call"
    /\ flight.h1.at = "findMany"
    /\ CheckStep(SyncBundles(FindMany(TableOrder, store, request.shop,
                                      request.id)))
    /\ UNCHANGED snapshots

\* the GetInventory query, which answers errors or the stock of the shop at
\* that instant; the variant ids of the model fit one batch
SyncGetInventory ==
    /\ pc = "call"
    /\ flight.h1.at = "inventory"
    /\ \E errors \in BOOLEAN, stock \in CheckStocks :
          CheckStep(Outcome([flight.h1 EXCEPT
                                !.at = "create",
                                !.inventoryMap =
                                    InventoryMap(flight.h1.variantIds, errors,
                                                 stock),
                                !.index = 1],
                            NoResponse))
    /\ UNCHANGED snapshots

\* prisma.bundleInventorySnapshot.create for the bundle at index
SyncCreate ==
    /\ pc = "call"
    /\ flight.h1.at = "create"
    /\ snapshots' = Append(snapshots,
                           CreatedRow(snapshots,
                                      SyncSnapshot(SyncedBundle(flight.h1),
                                                   flight.h1.inventoryMap)))
    /\ CheckStep(Outcome(SyncCreated(flight.h1,
                                     SyncSnapshot(SyncedBundle(flight.h1),
                                                  flight.h1.inventoryMap)),
                         NoResponse))

\* prisma.bundleInventorySnapshot.findMany for the bundle at index
SyncFindOld ==
    /\ pc = "call"
    /\ flight.h1.at = "findOld"
    /\ CheckStep(IF OldSnapshots(snapshots, SyncedBundle(flight.h1).id) # {}
                 THEN Outcome([flight.h1 EXCEPT
                                  !.at = "deleteMany",
                                  !.oldSnapshots =
                                      OldSnapshots(snapshots,
                                                   SyncedBundle(flight.h1).id)],
                              NoResponse)
                 ELSE SyncNext(flight.h1))
    /\ UNCHANGED snapshots

\* prisma.bundleInventorySnapshot.deleteMany({where: {id: {in: ...}}})
SyncDeleteMany ==
    /\ pc = "call"
    /\ flight.h1.at = "deleteMany"
    /\ snapshots' = SelectSeq(snapshots,
                              LAMBDA row : row.id \notin flight.h1.oldSnapshots)
    /\ CheckStep(SyncNext(flight.h1))

NextInventoryCheck ==
    \/ CheckStart
    \/ CheckFindFirst
    \/ CheckGetProducts
    \/ CheckGetInventory
    \/ CheckSnapshot
    \/ SyncStart
    \/ SyncFindMany
    \/ SyncGetInventory
    \/ SyncCreate
    \/ SyncFindOld
    \/ SyncDeleteMany

SpecInventoryCheck == InitInventoryCheck /\ [][NextInventoryCheck]_vars

\* ------------------------------------------------------------------------
\* Specification: any sequence of requests to the routes that write bundles
\* ------------------------------------------------------------------------
InitRoutes ==
    /\ PricingIdle
    /\ SavingsIdle
    /\ ValidateIdle
    /\ ValidatorsIdle
    /\ RoutesIdle
    /\ pc = "call"

\* Every handler awaits each call of prisma, and other requests are served
\* in between: a handler takes one step for each call, made of the call and
\* of the code that runs from its answer to the next call.

\* what a handler keeps between two calls: the next call (at), the request,
\* the id of its bundle, whether the bundle has been deleted since (an id is
\* given once: the row a later create stores under it is another bundle),
\* the row it has read or is about to write, the handle it has made, the
\* calls after the next one and the id of the category it created last
Flight(at, req, id, row, handle, pending) ==
    [at |-> at, request |-> req, id |-> id, gone |-> FALSE, row |-> row,
     handle |-> handle, pending |-> pending, categoryId |-> NullStr]

\* a handler that waits finds its bundle gone once another has deleted it
AfterDelete(fl, st) ==
    [h \in Handlers |->
        IF fl[h] # NoFlight /\ fl[h].id \in BundleIds /\ ~fl[h].gone
        THEN IF store[fl[h].id] # NoRow /\ st[fl[h].id] = NoRow
             THEN [fl[h] EXCEPT !.gone = TRUE]
             ELSE fl[h]
        ELSE fl[h]]

\* a request goes to the first handler that serves none
Free(h) ==
    /\ served < MaxRequests
    /\ flight[h] = NoFlight
    /\ h = CHOOSE free \in Handlers : flight[free] = NoFlight

\* the bounds of a run: item rows of a bundle, BundleCategory rows created
WithinBounds(st, count) ==
    /\ count <= MaxCategories
    /\ \A b \in BundleIds : st[b] # NoRow => Len(st[b].items) <= MaxStoredItems

\* one step of the handler h on the request req: the database after it, the
\* status it answers (0: not yet) and what the handler keeps
Serve(h, req, st, count, status, next) ==
    /\ WithinBounds(st, count)
    /\ store' = st
    /\ categoryCount' = count
    /\ served' = IF flight[h] = NoFlight THEN served + 1 ELSE served
    /\ request' = req
    /\ response' = [status |-> status]
    /\ flight' = AfterDelete([flight EXCEPT ![h] = next], st)
    /\ UNCHANGED <<callVars, pricingVars, pc, savingsVars, validateVars,
                   validatorVars, snapshots>>

\* prisma.bundle.create of the row the handler has made: the unique index
\* on (shop, handle) refuses a second row
Create(h, status, next) ==
    LET fl == flight[h]
    IN  IF HandleTaken(store, fl.row.shop, fl.row.handle, NullStr)
        THEN Serve(h, fl.request, store, categoryCount, 500, NoFlight)
        ELSE /\ HasFreeId(store)
             /\ Serve(h, fl.request, [store EXCEPT ![FreeId(store)] = fl.row],
                      categoryCount, status, next)

\* generateHandle, findUnique and the code up to prisma.bundle.create of a
\* page: row is the data of the create
PageFind(h, route, at, shop, data, now, row) ==
    LET req == Request(route, shop, NullStr, data)
    IN  /\ Free(h)
        /\ now \in Instants(HandleTaken(store, shop, generateHandle(data.title),
                                        NullStr))
        /\ IF generateHandleThrows(data.title) \/ row = NoRow
           THEN Serve(h, req, store, categoryCount, 500, NoFlight)
           ELSE Serve(h, req, store, categoryCount, 0,
                      Flight(at, req, NullStr, row, row.handle, <<>>))

\* the handle after findUnique
UniqueHandle(shop, title, now) ==
    IF HandleTaken(store, shop, generateHandle(title), NullStr)
    THEN Suffixed(generateHandle(title), now)
    ELSE generateHandle(title)

\* POST /api/bundles: generateHandle, findUnique, validateBundle
CreateFind ==
    \E h \in Handlers, shop \in Shops, body \in CreateBodies, now \in RouteDates :
        LET req == Request("POST /api/bundles", shop, NullStr, body)
            row == createBundle(shop, body, UniqueHandle(shop, body.title, now))
        IN  /\ Free(h)
            /\ now \in Instants(HandleTaken(store, shop,
                                            generateHandle(body.title), NullStr))
            /\ IF generateHandleThrows(body.title)
               THEN Serve(h, req, store, categoryCount, 500, NoFlight)
               ELSE IF ~createValidation(body).isValid
               THEN Serve(h, req, store, categoryCount, 400, NoFlight)
               ELSE IF HasNullItem(ItemsOrEmpty(body.items))
               THEN Serve(h, req, store, categoryCount, 500, NoFlight)
               ELSE Serve(h, req, store, categoryCount, 0,
                          Flight("create", req, NullStr, row, row.handle, <<>>))

\* POST /api/bundles: prisma.bundle.create with the nested rows
CreateBundle ==
    \E h \in Handlers :
        LET fl == flight[h]
            categories == ItemsOrEmpty(fl.request.body.categories)
            row == [fl.row EXCEPT
                       !.categories = CategoryRows(categories, categoryCount)]
        IN  /\ fl.at = "create"
            /\ IF HandleTaken(store, row.shop, row.handle, NullStr)
               THEN Serve(h, fl.request, store, categoryCount, 500, NoFlight)
               ELSE /\ HasFreeId(store)
                    /\ Serve(h, fl.request,
                             [store EXCEPT ![FreeId(store)] = row],
                             categoryCount + Len(categories), 201, NoFlight)

NewFixedFind ==
    \E h \in Handlers, shop \in Shops, data \in FixedForms, now \in RouteDates :
        PageFind(h, "POST /app/bundles/new/fixed", "fixed.create", shop, data,
                 now, newFixedBundle(shop, data,
                                     UniqueHandle(shop, data.title, now)))

NewFixedBundle ==
    \E h \in Handlers : flight[h].at = "fixed.create" /\ Create(h, 302, NoFlight)

NewVolumeFind ==
    \E h \in Handlers, shop \in Shops, data \in VolumeForms, now \in RouteDates :
        PageFind(h, "POST /app/bundles/new/volume", "volume.create", shop, data,
                 now, newVolumeBundle(shop, data,
                                      UniqueHandle(shop, data.title, now)))

NewVolumeBundle ==
    \E h \in Handlers : flight[h].at = "volume.create" /\ Create(h, 302, NoFlight)

NewTieredFind ==
    \E h \in Handlers, shop \in Shops, data \in TieredForms, now \in RouteDates :
        PageFind(h, "POST /app/bundles/new/tiered", "tiered.create", shop, data,
                 now, newTieredBundle(shop, data,
                                      UniqueHandle(shop, data.title, now)))

NewTieredBundle ==
    \E h \in Handlers : flight[h].at = "tiered.create" /\ Create(h, 302, NoFlight)

NewMixMatchFind ==
    \E h \in Handlers, shop \in Shops, data \in MixMatchForms, now \in RouteDates :
        PageFind(h, "POST /app/bundles/new/mix_match", "mix_match.create", shop,
                 data, now, newMixMatchBundle(shop, data,
                                              UniqueHandle(shop, data.title, now)))

\* prisma.bundle.create of the new mix and match page; the loop over the
\* categories follows, and categories.length of no categories throws a
\* TypeError
NewMixMatchBundle ==
    \E h \in Handlers :
        LET fl == flight[h]
            calls == MixMatchCalls(fl.request.body.categories, 1)
        IN  /\ fl.at = "mix_match.create"
            /\ IF fl.request.body.categories = UndefinedCategories
               THEN Create(h, 500, NoFlight)
               ELSE IF calls = <<>> THEN Create(h, 302, NoFlight)
               ELSE Create(h, 0, [fl EXCEPT !.at = "mix_match.category",
                                            !.id = FreeId(store),
                                            !.pending = calls])

\* one call of the loop: bundleCategory.create, or bundleItem.createMany of
\* the products of the category
NewMixMatchCategory ==
    \E h \in Handlers :
        LET fl == flight[h]
            call == Head(fl.pending)
            category == fl.request.body.categories[call.k]
            created == CategoryId(categoryCount + 1)
            threw == \/ fl.gone
                     \/ /\ call.call = "bundleItem.createMany"
                        /\ fl.categoryId \notin CategoryIdsOf(store)
            st == IF call.call = "bundleCategory.create"
                  THEN [store EXCEPT
                           ![fl.id].categories =
                               Append(@, CategoryRow(created, category.name))]
                  ELSE [store EXCEPT
                           ![fl.id].items =
                               @ \o ProductRows(category.products, fl.categoryId)]
            count == IF call.call = "bundleCategory.create"
                     THEN categoryCount + 1 ELSE categoryCount
        IN  /\ fl.at = "mix_match.category"
            /\ IF threw
               THEN Serve(h, fl.request, store, categoryCount, 500, NoFlight)
               ELSE IF Tail(fl.pending) = <<>>
               THEN Serve(h, fl.request, st, count, 302, NoFlight)
               ELSE Serve(h, fl.request, st, count, 0,
                          [fl EXCEPT !.pending = Tail(@),
                                     !.categoryId =
                                         IF call.call = "bundleCategory.create"
                                         THEN created ELSE @])

\* /api/bundles/:id: findFirst({ where: { id, shop } }) and the code up to
\* the next call, which for a PUT is findUnique when the title changes and
\* bundle.update after validateBundle when it does not
BundleFind ==
    \E h \in Handlers, shop \in Shops, id \in BundleIds, method \in Methods :
        \E body \in BundleBodies(method, FindOwned(store, id, shop)) :
            LET existingBundle == FindOwned(store, id, shop)
                req == Request(method \o " /api/bundles/:id", shop, id, body)
            IN  /\ Free(h)
                /\ IF existingBundle = NoRow
                   THEN Serve(h, req, store, categoryCount, 404, NoFlight)
                   ELSE IF method = "DELETE"
                   THEN Serve(h, req, store, categoryCount, 0,
                              Flight("delete", req, id, existingBundle,
                                     UndefinedList, <<>>))
                   ELSE IF method # "PUT"
                   THEN Serve(h, req, store, categoryCount, 405, NoFlight)
                   ELSE IF TitleChanges(existingBundle, body)
                   THEN Serve(h, req, store, categoryCount, 0,
                              Flight("put.handle", req, id, existingBundle,
                                     generateHandle(body.title), PutCalls(body)))
                   ELSE IF ~putValidation(existingBundle, body).isValid
                   THEN Serve(h, req, store, categoryCount, 400, NoFlight)
                   ELSE Serve(h, req, store, categoryCount, 0,
                              Flight("put.update", req, id, existingBundle,
                                     UndefinedList, PutCalls(body)))

\* DELETE: prisma.bundle.delete, which throws when the row is gone
DeleteBundle ==
    \E h \in Handlers :
        LET fl == flight[h]
        IN  /\ fl.at = "delete"
            /\ IF fl.gone
               THEN Serve(h, fl.request, store, categoryCount, 500, NoFlight)
               ELSE Serve(h, fl.request, DeleteRow(store, fl.id), categoryCount,
                          200, NoFlight)

\* PUT: findUnique of the new handle, then validateBundle
PutHandle ==
    \E h \in Handlers, now \in RouteDates :
        LET fl == flight[h]
            taken == HandleTaken(store, fl.request.shop, fl.handle, fl.id)
            newHandle == IF taken THEN Suffixed(fl.handle, now) ELSE fl.handle
        IN  /\ fl.at = "put.handle"
            /\ now \in Instants(taken)
            /\ IF ~putValidation(fl.row, fl.request.body).isValid
               THEN Serve(h, fl.request, store, categoryCount, 400, NoFlight)
               ELSE Serve(h, fl.request, store, categoryCount, 0,
                          [fl EXCEPT !.at = "put.update", !.handle = newHandle])

\* PUT: prisma.bundle.update, which throws when the row is gone or another
\* row of the shop has the handle
PutUpdate ==
    \E h \in Handlers :
        LET fl == flight[h]
            body == fl.request.body
            st == [store EXCEPT ![fl.id] = UpdatedRow(@, body, fl.handle)]
        IN  /\ fl.at = "put.update"
            /\ IF \/ fl.gone
                  \/ /\ fl.handle # UndefinedList
                     /\ \E b \in BundleIds \ {fl.id} :
                           /\ store[b] # NoRow
                           /\ store[b].shop = store[fl.id].shop
                           /\ store[b].handle = fl.handle
               THEN Serve(h, fl.request, store, categoryCount, 500, NoFlight)
               ELSE Serve(h, fl.request, st, categoryCount, 0,
                          [fl EXCEPT !.at = IF fl.pending = <<>> THEN "put.fetch"
                                            ELSE "put.relation"])

\* PUT: one call of the blocks of items, tiers, volumeRules and categories;
\* when it throws the catch answers 500 and what has been written stays
PutRelation ==
    \E h \in Handlers :
        LET fl == flight[h]
            written == putRelation(store, fl.id, fl.request.body,
                                   Head(fl.pending), fl.gone, categoryCount,
                                   fl.categoryId)
        IN  /\ fl.at = "put.relation"
            /\ IF written.threw
               THEN Serve(h, fl.request, written.store, written.categoryCount,
                          500, NoFlight)
               ELSE Serve(h, fl.request, written.store, written.categoryCount, 0,
                          [fl EXCEPT !.at = IF Tail(fl.pending) = <<>>
                                            THEN "put.fetch" ELSE @,
                                     !.pending = Tail(@),
                                     !.categoryId = written.categoryId])

\* PUT: the findUnique that fetches the bundle for the answer
PutFetch ==
    \E h \in Handlers :
        /\ flight[h].at = "put.fetch"
        /\ Serve(h, flight[h].request, store, categoryCount, 200, NoFlight)

\* the schedule route: findFirst and the checks of the body
ScheduleFind ==
    \E h \in Handlers, shop \in Shops, id \in BundleIds, body \in ScheduleBodies,
       now \in RouteDates :
        LET req == Request("POST /api/bundles/:id/schedule", shop, id,
                           [startDate |-> body.startDate,
                            endDate |-> body.endDate,
                            activateNow |-> body.activateNow, now |-> now])
            existingBundle == FindOwned(store, id, shop)
        IN  /\ Free(h)
            /\ existingBundle = NoRow
                  => body = ScheduleBody(NullStr, NullStr, TRUE) /\ now = "2026-01-01"
            /\ IF existingBundle = NoRow
               THEN Serve(h, req, store, categoryCount, 404, NoFlight)
               ELSE IF scheduleRefused(body)
               THEN Serve(h, req, store, categoryCount, 400, NoFlight)
               ELSE Serve(h, req, store, categoryCount, 0,
                          Flight("schedule.update", req, id,
                                 scheduleBundle(body, now), UndefinedList, <<>>))

\* the schedule route: prisma.bundle.update
ScheduleBundle ==
    \E h \in Handlers :
        LET fl == flight[h]
        IN  /\ fl.at = "schedule.update"
            /\ IF fl.gone
               THEN Serve(h, fl.request, store, categoryCount, 500, NoFlight)
               ELSE Serve(h, fl.request,
                          [store EXCEPT ![fl.id].startDate = fl.row.startDate,
                                        ![fl.id].endDate = fl.row.endDate,
                                        ![fl.id].status = fl.row.status],
                          categoryCount, 200, NoFlight)

\* the action of the bundles page: its one call, or the findFirst of
\* duplicate; the calls have where: { id: bundleId }, and a write to a row
\* that does not exist throws
BundlesPageAction ==
    \E h \in Handlers, shop \in Shops, action \in PageActions,
       bundleId \in BundleIds, now \in RouteDates :
        LET req == Request("POST /app/bundles", shop, bundleId, action)
            original == FindOwned(store, bundleId, shop)
            missing == store[bundleId] = NoRow
        IN  /\ Free(h)
            /\ now \in Instants(action = "duplicate" /\ original # NoRow)
            /\ CASE action = "delete" /\ ~missing ->
                      Serve(h, req, DeleteRow(store, bundleId), categoryCount,
                            200, NoFlight)
                 [] action = "activate" /\ ~missing ->
                      Serve(h, req, [store EXCEPT ![bundleId].status = "active"],
                            categoryCount, 200, NoFlight)
                 [] action = "deactivate" /\ ~missing ->
                      Serve(h, req, [store EXCEPT ![bundleId].status = "draft"],
                            categoryCount, 200, NoFlight)
                 [] action \in {"delete", "activate", "deactivate"} /\ missing ->
                      Serve(h, req, store, categoryCount, 500, NoFlight)
                 [] action = "duplicate" /\ original # NoRow ->
                      Serve(h, req, store, categoryCount, 0,
                            Flight("page.duplicate", req, NullStr,
                                   DuplicateOf(original, shop, now),
                                   UndefinedList, <<>>))
                 [] OTHER -> Serve(h, req, store, categoryCount, 400, NoFlight)

\* the action of the bundles page: prisma.bundle.create of the copy
BundlesPageDuplicate ==
    \E h \in Handlers : flight[h].at = "page.duplicate" /\ Create(h, 200, NoFlight)

\* the action of the page of one bundle: one call with where: { id },
\* whatever the shop
BundleDetailAction ==
    \E h \in Handlers, shop \in Shops, action \in PageActions, id \in BundleIds :
        LET req == Request("POST /app/bundles/:id", shop, id, action)
            missing == store[id] = NoRow
        IN  /\ Free(h)
            /\ CASE action = "duplicate" ->
                      Serve(h, req, store, categoryCount, 400, NoFlight)
                 [] missing -> Serve(h, req, store, categoryCount, 500, NoFlight)
                 [] action = "delete" ->
                      Serve(h, req, DeleteRow(store, id), categoryCount, 302,
                            NoFlight)
                 [] action = "activate" ->
                      Serve(h, req, [store EXCEPT ![id].status = "active"],
                            categoryCount, 200, NoFlight)
                 [] action = "deactivate" ->
                      Serve(h, req, [store EXCEPT ![id].status = "draft"],
                            categoryCount, 200, NoFlight)
                 [] action = "archive" ->
                      Serve(h, req, [store EXCEPT ![id].status = "archived"],
                            categoryCount, 200, NoFlight)

\* POST /api/bundles/:id/duplicate: findFirst with the relations
DuplicateFind ==
    \E h \in Handlers, shop \in Shops, id \in BundleIds, body \in DuplicateBodies :
        LET req == Request("POST /api/bundles/:id/duplicate", shop, id, body)
            originalBundle == FindOwned(store, id, shop)
        IN  /\ Free(h)
            /\ IF originalBundle = NoRow
               THEN Serve(h, req, store, categoryCount, 404, NoFlight)
               ELSE Serve(h, req, store, categoryCount, 0,
                          Flight("duplicate.handle", req, NullStr, originalBundle,
                                 generateHandle(newTitle(originalBundle, body)),
                                 <<>>))

\* findUnique of the handle of the copy
DuplicateHandle ==
    \E h \in Handlers, now \in RouteDates :
        LET fl == flight[h]
            taken == HandleTaken(store, fl.request.shop, fl.handle, NullStr)
        IN  /\ fl.at = "duplicate.handle"
            /\ now \in Instants(taken)
            /\ Serve(h, fl.request, store, categoryCount, 0,
                     [fl EXCEPT !.at = "duplicate.create",
                                !.handle = IF taken THEN Suffixed(@, now) ELSE @])

\* prisma.bundle.create of the copy, with the items that have no category
DuplicateBundle ==
    \E h \in Handlers :
        LET fl == flight[h]
            row == duplicateBundle(fl.row, fl.request.shop,
                                   newTitle(fl.row, fl.request.body), fl.handle)
        IN  /\ fl.at = "duplicate.create"
            /\ IF HandleTaken(store, row.shop, row.handle, NullStr)
               THEN Serve(h, fl.request, store, categoryCount, 500, NoFlight)
               ELSE /\ HasFreeId(store)
                    /\ Serve(h, fl.request,
                             [store EXCEPT ![FreeId(store)] = row],
                             categoryCount, 0,
                             [fl EXCEPT !.at = IF fl.row.categories = <<>>
                                               THEN "duplicate.fetch"
                                               ELSE "duplicate.category",
                                        !.id = FreeId(store),
                                        !.pending = fl.row.categories])

\* bundleCategory.create of one category of the original, its items nested
DuplicateCategory ==
    \E h \in Handlers :
        LET fl == flight[h]
            category == Head(fl.pending)
            created == CategoryId(categoryCount + 1)
        IN  /\ fl.at = "duplicate.category"
            /\ IF fl.gone
               THEN Serve(h, fl.request, store, categoryCount, 500, NoFlight)
               ELSE Serve(h, fl.request,
                          [store EXCEPT
                              ![fl.id].categories =
                                  Append(@, CategoryRow(created, category.name)),
                              ![fl.id].items =
                                  @ \o CategoryItems(fl.row.items, category.id,
                                                     created)],
                          categoryCount + 1, 0,
                          [fl EXCEPT !.at = IF Tail(fl.pending) = <<>>
                                            THEN "duplicate.fetch" ELSE @,
                                     !.pending = Tail(@)])

\* the findUnique that fetches the copy for the answer
DuplicateFetch ==
    \E h \in Handlers :
        /\ flight[h].at = "duplicate.fetch"
        /\ Serve(h, flight[h].request, store, categoryCount, 201, NoFlight)

NextRoutes ==
    \/ CreateFind
    \/ CreateBundle
    \/ NewFixedFind
    \/ NewFixedBundle
    \/ NewVolumeFind
    \/ NewVolumeBundle
    \/ NewTieredFind
    \/ NewTieredBundle
    \/ NewMixMatchFind
    \/ NewMixMatchBundle
    \/ NewMixMatchCategory
    \/ BundleFind
    \/ DeleteBundle
    \/ PutHandle
    \/ PutUpdate
    \/ PutRelation
    \/ PutFetch
    \/ ScheduleFind
    \/ ScheduleBundle
    \/ BundlesPageAction
    \/ BundlesPageDuplicate
    \/ BundleDetailAction
    \/ DuplicateFind
    \/ DuplicateHandle
    \/ DuplicateBundle
    \/ DuplicateCategory
    \/ DuplicateFetch

SpecRoutes == InitRoutes /\ [][NextRoutes]_vars

\* ------------------------------------------------------------------------
\* Properties
\* ------------------------------------------------------------------------
\* total selected quantity, summed from the head
RECURSIVE SelectedTotal(_)
SelectedTotal(items) ==
    IF items = <<>> THEN 0 ELSE Head(items).quantity + SelectedTotal(Tail(items))

HasError(text) ==
    \E i \in DOMAIN result.validationErrors :
        result.validationErrors[i] = [prefix |-> text, arg |-> NullInt, suffix |-> ""]

\* C1: for a FIXED bundle whose price is set, discountedPrice is
\* bundle.price * quantity, whatever the selection, the item prices and the
\* discountType/discountValue also configured on the bundle.
C1_FixedPriceTimesQuantity ==
    (Done /\ bundle.type = FIXED /\ bundle.price # NullNum)
        => result.discountedPrice = RMul(bundle.price, R(quantity))

C1_Witness ==
    /\ Done
    /\ bundle.type = FIXED
    /\ bundle.price = R(50)
    /\ bundle.discountType = PERCENTAGE
    /\ bundle.discountValue = R(10)
    /\ quantity = 2
    /\ Len(selectedItems) = 2
    /\ result.originalPrice = R(70)
    /\ result.discountedPrice = R(100)

\* C2: the rule found for quantity q is in range for q and has the largest
\* minQuantity among the rules in range; none is found exactly when no rule
\* is in range.  Ranges may overlap or leave gaps.
C2_HighestApplicableRule ==
    (Done /\ bundle.type = VOLUME) =>
        LET rules == bundle.volumeRules
            q == VolumeTotalQuantity(selectedItems, quantity)
            InRange(i) == /\ q >= rules[i].minQuantity
                          /\ (rules[i].maxQuantity = NullInt
                                 \/ q <= rules[i].maxQuantity[1])
            S == {i \in DOMAIN rules : InRange(i)}
        IN  /\ (applicableRule = NoRule) <=> (S = {})
            /\ S # {} =>
                   \E i \in S :
                       /\ applicableRule = rules[i]
                       /\ \A j \in S : rules[j].minQuantity <= rules[i].minQuantity

C2_Witness ==
    /\ Done
    /\ bundle.type = VOLUME
    /\ Len(bundle.volumeRules) = 2
    /\ bundle.volumeRules[1].minQuantity = 1
    /\ bundle.volumeRules[1].maxQuantity = NullInt
    /\ bundle.volumeRules[2].minQuantity = 3
    /\ VolumeTotalQuantity(selectedItems, quantity) = 4
    /\ applicableRule = bundle.volumeRules[2]

\* the price a percentage discount of value v leaves of P
IsPercentageOff(P, v, d) ==
    /\ d = RDiv(RMul(P, RSub(R(100), v)), R(100))
    /\ v = R(0) => d = P
    /\ v = R(100) => d = R(0)

BundleDiscountApplies ==
    /\ \/ bundle.type = MIX_MATCH
       \/ bundle.type = FIXED /\ bundle.price = NullNum
    /\ bundle.discountType \notin {NullStr, ""}
    /\ bundle.discountValue # NullNum

RuleDiscountApplies == bundle.type = VOLUME /\ applicableRule # NoRule

\* C3: a Percentage discount of value v applied to original price P (MIX_MATCH,
\* FIXED without price, matched VOLUME rule) gives P * (1 - v/100); v = 0 gives
\* P and v = 100 gives 0.
C3_PercentageDiscount ==
    Done =>
        /\ (BundleDiscountApplies /\ bundle.discountType = PERCENTAGE)
               => IsPercentageOff(result.originalPrice, bundle.discountValue,
                                  result.discountedPrice)
        /\ (RuleDiscountApplies /\ applicableRule.discountType = PERCENTAGE)
               => IsPercentageOff(result.originalPrice, applicableRule.discountValue,
                                  result.discountedPrice)

C3_Witness ==
    /\ Done
    /\ bundle.type = MIX_MATCH
    /\ bundle.discountType = PERCENTAGE
    /\ bundle.discountValue = R(10)
    /\ result.originalPrice = R(35)
    /\ result.discountedPrice = RDiv(R(63), R(2))

\* C4: a FixedAmount discount never gives a negative discountedPrice; a
\* discount value above the original price gives exactly 0.
C4_FixedAmountClamped ==
    Done =>
        /\ (BundleDiscountApplies /\ bundle.discountType = FIXED_AMOUNT)
               => /\ RLe(R(0), result.discountedPrice)
                  /\ RLt(result.originalPrice, bundle.discountValue)
                         => result.discountedPrice = R(0)
        /\ (RuleDiscountApplies /\ applicableRule.discountType = FIXED_AMOUNT)
               => /\ RLe(R(0), result.discountedPrice)
                  /\ RLt(result.originalPrice, applicableRule.discountValue)
                         => result.discountedPrice = R(0)

C4_Witness ==
    /\ Done
    /\ bundle.type = FIXED
    /\ bundle.price = NullNum
    /\ bundle.discountType = FIXED_AMOUNT
    /\ bundle.discountValue = R(100)
    /\ result.originalPrice = R(45)
    /\ result.discountedPrice = R(0)

TierIdGiven == tierId \notin {NullStr, ""}
TierIdMatches == \E i \in DOMAIN bundle.tiers : bundle.tiers[i].id = tierId

\* C5: TIERED with a tierId that matches no tier: isValid = false with the
\* error "Invalid tier selected", discountedPrice = originalPrice and no
\* applied discount.
C5_InvalidTier ==
    (Done /\ bundle.type = TIERED /\ TierIdGiven /\ ~TierIdMatches) =>
        /\ result.isValid = FALSE
        /\ HasError("Invalid tier selected")
        /\ result.discountedPrice = result.originalPrice
        /\ result.appliedDiscount = NoDiscount

C5_Witness ==
    /\ Done
    /\ bundle.type = TIERED
    /\ Len(bundle.tiers) = 2
    /\ tierId = "tX"
    /\ result.originalPrice = R(20)
    /\ result.discountedPrice = R(20)
    /\ result.isValid = FALSE
    /\ HasError("Invalid tier selected")

\* C6: TIERED without a tierId: isValid = false, the single error "Please
\* select a tier", discountedPrice = originalPrice, and no product-count
\* check is made.
C6_NoTierSelected ==
    (Done /\ bundle.type = TIERED /\ ~TierIdGiven) =>
        /\ result.isValid = FALSE
        /\ Len(result.validationErrors) = 1
        /\ HasError("Please select a tier")
        /\ result.discountedPrice = result.originalPrice

C6_Witness ==
    /\ Done
    /\ bundle.type = TIERED
    /\ Len(bundle.tiers) = 1
    /\ bundle.tiers[1].productCount = 3
    /\ tierId = NullStr
    /\ SelectedTotal(selectedItems) = 2
    /\ result.isValid = FALSE
    /\ Len(result.validationErrors) = 1
    /\ HasError("Please select a tier")

\* C7: TIERED with tierId matching tier t: discountedPrice = t.price * quantity
\* whether or not the count is right; isValid exactly when the selected
\* quantities sum to t.productCount; a mismatch adds one error.
C7_TierPriceAndCount ==
    (Done /\ bundle.type = TIERED /\ TierIdGiven /\ TierIdMatches) =>
        LET t == bundle.tiers[CHOOSE i \in DOMAIN bundle.tiers :
                                  bundle.tiers[i].id = tierId]
            countOk == SelectedTotal(selectedItems) = t.productCount
        IN  /\ result.discountedPrice = RMul(t.price, R(quantity))
            /\ result.isValid <=> countOk
            /\ Len(result.validationErrors) = (IF countOk THEN 0 ELSE 1)

C7_Witness ==
    /\ Done
    /\ bundle.type = TIERED
    /\ Len(bundle.tiers) = 2
    /\ tierId = "t2"
    /\ bundle.tiers[2].price = R(65)
    /\ bundle.tiers[2].productCount = 3
    /\ SelectedTotal(selectedItems) = 4
    /\ quantity = 2
    /\ result.discountedPrice = R(130)
    /\ result.isValid = FALSE
    /\ Len(result.validationErrors) = 1

\* C8: MIX_MATCH: a total below a minProducts, or above a maxProducts, that
\* is neither null nor 0 makes the result invalid with one error per violated
\* bound; totals equal to a bound are valid; a bound that is null or 0 is not
\* checked; the configured discount is applied to originalPrice all the same.
C8_MixMatchBounds ==
    (Done /\ bundle.type = MIX_MATCH) =>
        LET total == SelectedTotal(selectedItems)
            below == /\ bundle.minProducts \notin {NullInt, IntOf(0)}
                     /\ total < bundle.minProducts[1]
            above == /\ bundle.maxProducts \notin {NullInt, IntOf(0)}
                     /\ total > bundle.maxProducts[1]
            minError == [prefix |-> "Minimum ", arg |-> bundle.minProducts,
                         suffix |-> " products required"]
            maxError == [prefix |-> "Maximum ", arg |-> bundle.maxProducts,
                         suffix |-> " products allowed"]
        IN  /\ result.isValid <=> ~(below \/ above)
            /\ result.validationErrors =
                   (IF below THEN <<minError>> ELSE <<>>)
                   \o (IF above THEN <<maxError>> ELSE <<>>)
            /\ BundleDiscountApplies =>
                   /\ result.appliedDiscount.type = bundle.discountType
                   /\ result.appliedDiscount.value = bundle.discountValue
                   /\ result.discountedPrice =
                          applyDiscount(result.originalPrice, bundle.discountType,
                                        bundle.discountValue).discountedPrice

\* C8 as stated, with every bound that is not null checked: a total below
\* minProducts or above maxProducts makes the result invalid with one error
\* per violated bound.
C8_EveryBoundChecked ==
    (Done /\ bundle.type = MIX_MATCH) =>
        LET total == SelectedTotal(selectedItems)
            below == /\ bundle.minProducts # NullInt
                     /\ total < bundle.minProducts[1]
            above == /\ bundle.maxProducts # NullInt
                     /\ total > bundle.maxProducts[1]
        IN  /\ (below \/ above) => ~result.isValid
            /\ Len(result.validationErrors) =
                   (IF below THEN 1 ELSE 0) + (IF above THEN 1 ELSE 0)

C8_Witness ==
    /\ Done
    /\ bundle.type = MIX_MATCH
    /\ bundle.minProducts = IntOf(3)
    /\ bundle.maxProducts = IntOf(1)
    /\ SelectedTotal(selectedItems) = 2
    /\ bundle.discountType = PERCENTAGE
    /\ bundle.discountValue = R(10)
    /\ result.originalPrice = R(20)
    /\ result.discountedPrice = R(18)
    /\ result.isValid = FALSE
    /\ Len(result.validationErrors) = 2

\* C9: VOLUME: the rule is selected for (sum of selected quantities) *
\* quantity; when no rule is in range for that total the result has
\* discountedPrice = originalPrice, no applied discount, isValid = true and no
\* errors.
RuleInRange(rule, total) ==
    /\ total >= rule.minQuantity
    /\ (rule.maxQuantity = NullInt \/ total <= rule.maxQuantity[1])

C9_VolumeTotalQuantity ==
    (Done /\ bundle.type = VOLUME) =>
        LET rules == bundle.volumeRules
            total == SelectedTotal(selectedItems) * quantity
            S == {i \in DOMAIN rules : RuleInRange(rules[i], total)}
        IN  /\ S = {} =>
                   /\ result.discountedPrice = result.originalPrice
                   /\ result.appliedDiscount = NoDiscount
                   /\ result.isValid = TRUE
                   /\ result.validationErrors = <<>>
            /\ S # {} =>
                   \E i \in S :
                       /\ result.appliedDiscount.type = rules[i].discountType
                       /\ result.appliedDiscount.value = rules[i].discountValue

C9_Witness ==
    /\ Done
    /\ bundle.type = VOLUME
    /\ Len(bundle.volumeRules) = 1
    /\ bundle.volumeRules[1].minQuantity = 1
    /\ bundle.volumeRules[1].maxQuantity = IntOf(2)
    /\ SelectedTotal(selectedItems) = 2
    /\ quantity = 2
    /\ result.originalPrice = R(40)
    /\ result.discountedPrice = R(40)
    /\ result.appliedDiscount = NoDiscount
    /\ result.isValid = TRUE

\* C10: savingsAmount = originalPrice - discountedPrice for every bundle type
\* and input, and savingsPercent = 0 whenever originalPrice = 0, with no
\* division by zero.
C10_Savings ==
    Done =>
        /\ result.savingsAmount = RSub(result.originalPrice, result.discountedPrice)
        /\ RAdd(result.discountedPrice, result.savingsAmount) = result.originalPrice
        /\ result.savingsPercent.kind = "finite"
        /\ result.originalPrice = R(0) => result.savingsPercent = R(0)

C10_Witness ==
    /\ Done
    /\ bundle.type = FIXED
    /\ bundle.price = R(50)
    /\ selectedItems = <<>>
    /\ result.originalPrice = R(0)
    /\ result.discountedPrice = R(50)
    /\ result.savingsAmount = R(-50)
    /\ result.savingsPercent = R(0)

\* C11: formatSavings computes a savings percent of 0 whenever
\* originalPrice = 0 and never divides by zero.
C11_FormatSavingsZeroPrice ==
    (Done /\ fsArgs.originalPrice = R(0)) =>
        /\ fsResult.percent = R(0)
        /\ fsResult.percent.kind = "finite"

\* C12: when a discount was applied and originalPrice > 0 every itemPrices
\* entry has discountedPrice = entry.originalPrice * (discountedPrice /
\* originalPrice); otherwise every entry keeps discountedPrice =
\* entry.originalPrice.
C12_ProportionalItemPrices ==
    Done =>
        /\ Len(result.itemPrices) = Len(selectedItems)
        /\ \A i \in DOMAIN result.itemPrices :
               LET e == result.itemPrices[i]
               IN  /\ e.originalPrice = selectedItems[i].price
                   /\ IF result.appliedDiscount # NoDiscount
                         /\ RLt(R(0), result.originalPrice)
                      THEN e.discountedPrice =
                               RMul(e.originalPrice,
                                    RDiv(result.discountedPrice, result.originalPrice))
                      ELSE e.discountedPrice = e.originalPrice

C12_Witness ==
    /\ Done
    /\ bundle.type = FIXED
    /\ bundle.price = R(50)
    /\ quantity = 1
    /\ Len(selectedItems) = 2
    /\ result.originalPrice = R(35)
    /\ result.itemPrices[1].originalPrice = R(10)
    /\ result.itemPrices[1].discountedPrice = RMul(R(10), RDiv(R(50), R(35)))
    /\ result.itemPrices[2].discountedPrice = RMul(R(25), RDiv(R(50), R(35)))

\* C13: a FixedPricePerItem discount leaves the total unchanged:
\* discountedPrice = originalPrice and savingsAmount = 0, while an applied
\* discount with the per-item label is reported.
C13_FixedPricePerItemUnchanged ==
    Done =>
        /\ (BundleDiscountApplies /\ bundle.discountType = FIXED_PRICE_PER_ITEM)
               => /\ result.appliedDiscount.type = FIXED_PRICE_PER_ITEM
                  /\ result.appliedDiscount.value = bundle.discountValue
                  /\ result.appliedDiscount.label =
                         [prefix |-> "EUR ",
                          arg |-> toFixed2(bundle.discountValue),
                          suffix |-> " per item"]
        /\ result.appliedDiscount.type = FIXED_PRICE_PER_ITEM
               => /\ result.discountedPrice = result.originalPrice
                  /\ result.savingsAmount = R(0)

C13_Witness ==
    /\ Done
    /\ bundle.type = MIX_MATCH
    /\ bundle.discountType = FIXED_PRICE_PER_ITEM
    /\ bundle.discountValue = R(10)
    /\ quantity = 2
    /\ result.originalPrice = R(70)
    /\ result.discountedPrice = R(70)
    /\ result.savingsAmount = R(0)
    /\ result.appliedDiscount.label.suffix = " per item"

\* an entry of the returned errors with this field and code
ConfigErrors(field, code) ==
    {i \in DOMAIN validation.errors :
        validation.errors[i].field = field /\ validation.errors[i].code = code}

Reported(field, code) == ConfigErrors(field, code) # {}

TitleMissing ==
    \/ config.title = UndefinedList
    \/ \A i \in DOMAIN config.title : config.title[i] \in WhiteSpace
NoItems == config.items = UndefinedList \/ config.items = <<>>

\* the checks of validateBundle that the configuration fails, as
\* <<field, code>>; the price check is here for null price and discountType
FailedChecks ==
    {c \in {<<"title", "REQUIRED">>, <<"type", "REQUIRED">>,
            <<"items", "MIN_ITEMS">>, <<"price", "REQUIRED">>,
            <<"minProducts", "INVALID_RANGE">>, <<"volumeRules", "MIN_RULES">>,
            <<"tiers", "MIN_TIERS">>, <<"endDate", "INVALID_DATE_RANGE">>} :
        CASE c[1] = "title" -> TitleMissing
          [] c[1] = "type" -> config.type = UndefinedStr
          [] c[1] = "items" -> config.type \in {FIXED, MIX_MATCH} /\ NoItems
          [] c[1] = "price" -> /\ config.type = FIXED
                               /\ config.price = NullNum
                               /\ config.discountType = NullStr
          [] c[1] = "minProducts" -> /\ config.type = MIX_MATCH
                                     /\ TruthyInt(config.minProducts)
                                     /\ TruthyInt(config.maxProducts)
                                     /\ config.minProducts[1] > config.maxProducts[1]
          [] c[1] = "volumeRules" -> config.type = VOLUME /\ config.volumeRules = <<>>
          [] c[1] = "tiers" -> config.type = TIERED /\ config.tiers = <<>>
          [] c[1] = "endDate" -> /\ config.startDate # NullStr
                                 /\ config.endDate # NullStr
                                 /\ ~(DateTime(config.startDate)
                                        < DateTime(config.endDate))}

\* C14: validateBundle evaluates every check whatever the others gave: the
\* errors list has exactly one entry per failed check and nothing else,
\* isValid is true exactly when the list is empty, and a result is always
\* returned.
C14_AllChecksIndependent ==
    Done =>
        /\ validation # NoValidation
        /\ \A c \in FailedChecks : Cardinality(ConfigErrors(c[1], c[2])) = 1
        /\ Len(validation.errors) = Cardinality(FailedChecks)
        /\ validation.isValid <=> (validation.errors = <<>>)

C14_Witness ==
    /\ Done
    /\ config.type = FIXED
    /\ Len(validation.errors) = 4
    /\ Reported("title", "REQUIRED")
    /\ Reported("items", "MIN_ITEMS")
    /\ Reported("price", "REQUIRED")
    /\ Reported("endDate", "INVALID_DATE_RANGE")
    /\ ~validation.isValid

\* C15: for a FIXED configuration validateBundle reports REQUIRED on field
\* price exactly when it has neither a price nor a discountType, be the two
\* null or absent from the input.
C15_FixedPriceRequired ==
    (Done /\ config.type = FIXED) =>
        (Reported("price", "REQUIRED")
           <=> /\ config.price \in {NullNum, UndefinedNum}
               /\ config.discountType \in {NullStr, UndefinedStr})

\* C16: INVALID_DATE_RANGE is reported exactly when both startDate and
\* endDate are set and startDate is not strictly before endDate; equal
\* instants are rejected.
C16_DateRange ==
    Done =>
        (Reported("endDate", "INVALID_DATE_RANGE")
           <=> /\ config.startDate # NullStr
               /\ config.endDate # NullStr
               /\ DateTime(config.endDate) <= DateTime(config.startDate))

C16_Witness ==
    /\ Done
    /\ config.startDate = "2026-01-01"
    /\ config.endDate = "2026-01-01T00:00:00.000Z"
    /\ Reported("endDate", "INVALID_DATE_RANGE")
    /\ Cardinality(ConfigErrors("endDate", "INVALID_DATE_RANGE")) = 1

\* the entries of the admin validator's errors with this code
AdminErrors(code) ==
    {i \in DOMAIN adminResponse.errors : adminResponse.errors[i].code = code}

StorefrontReports(message) ==
    \E i \in DOMAIN storefrontResponse.errors :
        storefrontResponse.errors[i] = message

\* the storefront validator answered before its checks
StorefrontRefused ==
    storefrontResponse.errors \in {<< <<"Bundle not found">> >>,
                                   << <<"Bundle not currently available">> >>}

\* the quantity of a variant over all the selected entries that name it
SelectedQuantityOf(variantId) ==
    SumQuantity(SelectSeq(selectedItems, LAMBDA item : item.variantId = variantId))

\* the variants that appear more than once among the selected items
RepeatedVariants ==
    {selectedItems[j].variantId : j \in
        {j \in DOMAIN selectedItems :
            \E i \in 1..(j - 1) : selectedItems[i].variantId = selectedItems[j].variantId}}

\* C17 as stated: for a MIX_MATCH bundle with allowDuplicates = false, every
\* variant that appears more than once among the selected items gives a
\* duplicate-selection error in the admin validator and in the storefront
\* validator.
C17_DuplicateSelection ==
    (Done /\ bundle.type = MIX_MATCH /\ ~bundle.allowDuplicates) =>
        \A v \in RepeatedVariants :
            /\ \E i \in AdminErrors("NO_DUPLICATES") :
                  /\ adminResponse.errors[i].field = "selectedItems"
                  /\ adminResponse.errors[i].message =
                         <<"Duplicate selection not allowed: ", v>>
            /\ ~adminResponse.isValid
            /\ ~StorefrontRefused =>
                  /\ StorefrontReports(
                         <<"Duplicate products are not allowed in this bundle">>)
                  /\ ~storefrontResponse.isValid

\* C17: for a MIX_MATCH bundle with allowDuplicates = false, a variant that
\* appears more than once among the selected items gives the duplicate error
\* of the storefront validator, and gives the NO_DUPLICATES error of the
\* admin validator when the quantities of its entries sum to more than 1; the
\* admin validator reports no duplicate of a repeated variant whose
\* quantities sum to 1 or less.
C17_DuplicateByRepeatOrSum ==
    (Done /\ bundle.type = MIX_MATCH /\ ~bundle.allowDuplicates) =>
        \A v \in RepeatedVariants :
            /\ IF SelectedQuantityOf(v) > 1
               THEN /\ \E i \in AdminErrors("NO_DUPLICATES") :
                          /\ adminResponse.errors[i].field = "selectedItems"
                          /\ adminResponse.errors[i].message =
                                 <<"Duplicate selection not allowed: ", v>>
                    /\ ~adminResponse.isValid
               ELSE \A i \in AdminErrors("NO_DUPLICATES") :
                        adminResponse.errors[i].message #
                            <<"Duplicate selection not allowed: ", v>>
            /\ ~StorefrontRefused =>
                  /\ StorefrontReports(
                         <<"Duplicate products are not allowed in this bundle">>)
                  /\ ~storefrontResponse.isValid

C17_Witness ==
    /\ Done
    /\ bundle.type = MIX_MATCH
    /\ ~bundle.allowDuplicates
    /\ Len(selectedItems) = 2
    /\ selectedItems[1].variantId = "V1"
    /\ selectedItems[2].variantId = "V1"
    /\ selectedItems[1].quantity = 1
    /\ selectedItems[2].quantity = 1
    /\ AdminErrors("NO_DUPLICATES") # {}
    /\ StorefrontReports(<<"Duplicate products are not allowed in this bundle">>)

\* C18: for a MIX_MATCH bundle and each of its categories the two validators
\* sum the quantities of the same selected items, and each reports an error
\* when the sum is below the category's minSelect or above its maxSelect.
C18_CategorySums ==
    (Done /\ bundle.type = MIX_MATCH /\ ~StorefrontRefused) =>
        \A k \in DOMAIN bundle.categories :
            LET category == bundle.categories[k]
                adminTotal == adminResponse.categoryTotals[k]
                storefrontTotal == storefrontResponse.categoryTotals[k]
            IN  /\ adminTotal = storefrontTotal
                /\ (category.minSelect > 0 /\ adminTotal < category.minSelect)
                      => /\ \E i \in AdminErrors("CATEGORY_MIN") :
                               adminResponse.errors[i].message[1] = category.name
                         /\ StorefrontReports(
                                <<category.name, ": select at least ",
                                  ToString(category.minSelect), " items">>)
                /\ (TruthyInt(category.maxSelect) /\ adminTotal > category.maxSelect[1])
                      => /\ \E i \in AdminErrors("CATEGORY_MAX") :
                               adminResponse.errors[i].message[1] = category.name
                         /\ StorefrontReports(
                                <<category.name, ": maximum ",
                                  ToString(category.maxSelect[1]), " items">>)

\* C19: for a VOLUME bundle with applyToSameProduct = true the admin
\* validator reports SAME_PRODUCT_REQUIRED exactly when the selected items do
\* not all have one productId.
C19_SameProductRequired ==
    (Done /\ bundle.type = VOLUME /\ bundle.applyToSameProduct) =>
        /\ AdminErrors("SAME_PRODUCT_REQUIRED") # {}
              <=> \E i, j \in DOMAIN selectedItems :
                     selectedItems[i].productId # selectedItems[j].productId
        /\ Cardinality(AdminErrors("SAME_PRODUCT_REQUIRED")) <= 1
        /\ AdminErrors("SAME_PRODUCT_REQUIRED") # {} => ~adminResponse.isValid

C19_Witness ==
    /\ Done
    /\ bundle.type = VOLUME
    /\ bundle.applyToSameProduct
    /\ Len(selectedItems) = 2
    /\ selectedItems[1].productId = "P1"
    /\ selectedItems[2].productId = "P2"
    /\ AdminErrors("SAME_PRODUCT_REQUIRED") # {}

\* the selected tier of the request, when the tierId names one
SelectedTierGiven == bundle.type = TIERED /\ HasTier(bundle.tiers, tierId)

\* the elements of that tier's allowedProducts, when the text is a list
AllowedList ==
    LET text == TierOf(bundle.tiers, tierId).allowedProducts
        parsed == JSONParse(text)
    IN  IF TruthyStr(text) /\ parsed.ok /\ parsed.isArray THEN parsed.elems
        ELSE <<>>

\* the ids among them
AllowedIds ==
    {AllowedList[k].text : k \in {j \in DOMAIN AllowedList :
                                     AllowedList[j].kind = "string"}}

\* C20: for a TIERED bundle whose selected tier has a non-empty
\* allowedProducts list the admin validator reports PRODUCT_NOT_IN_TIER if
\* some selected item has neither its productId nor its variantId in the
\* list, and does not report it when every selected item has one of them in
\* the list.
C20_TierAllowedProducts ==
    (Done /\ SelectedTierGiven /\ AllowedList # <<>>) =>
        /\ AdminErrors("PRODUCT_NOT_IN_TIER") # {}
              <=> \E i \in DOMAIN selectedItems :
                     /\ Chars(selectedItems[i].productId) \notin AllowedIds
                     /\ Chars(selectedItems[i].variantId) \notin AllowedIds
        /\ AdminErrors("PRODUCT_NOT_IN_TIER") # {} => ~adminResponse.isValid

C20_Witness ==
    /\ Done
    /\ SelectedTierGiven
    /\ AllowedIds = {Chars("P1"), Chars("V3")}
    /\ Len(selectedItems) = 2
    /\ selectedItems[1].variantId = "V3"
    /\ selectedItems[2].variantId = "V2"
    /\ AdminErrors("PRODUCT_NOT_IN_TIER") = {}
    /\ adminResponse.status = 200

\* the storefront validator reports the product of this inventory node
ReportsStock(node) ==
    \/ StorefrontReports(<<node.productTitle, " is not available">>)
    \/ \E n \in 0..node.quantityAvailable[1] :
          StorefrontReports(<<"Only ", ToString(n), " of ", node.productTitle,
                              " available">>)

\* C21: in the storefront validator the required quantity of a selected
\* variant is its selected quantity, over all the entries that name it,
\* times the bundle quantity, and an error is reported whenever that exceeds
\* the available stock or the variant is not for sale.
C21_InventorySufficiency ==
    (Done /\ ~StorefrontRefused) =>
        \A i \in DOMAIN selectedItems :
            LET node == inventory[ToGid(selectedItems[i].variantId)]
                requiredQty == SelectedQuantityOf(selectedItems[i].variantId) * quantity
            IN  (~node.availableForSale \/ node.quantityAvailable[1] < requiredQty)
                   => ReportsStock(node)

\* C23: isValid is true exactly when validationErrors is empty, and a FIXED
\* or VOLUME bundle always gives a valid result with no errors.
C23_ValidIffNoErrors ==
    Done =>
        /\ result.isValid <=> (result.validationErrors = <<>>)
        /\ bundle.type \in {FIXED, VOLUME}
              => (result.isValid /\ result.validationErrors = <<>>)

C23_Witness ==
    /\ Done
    /\ bundle.type = MIX_MATCH
    /\ ~result.isValid
    /\ Len(result.validationErrors) = 2

\* sum over itemPrices of discountedPrice * quantity, added from the first
\* entry to the last
RECURSIVE SumDiscounted(_)
SumDiscounted(itemPrices) ==
    IF itemPrices = <<>> THEN R(0)
    ELSE RAdd(SumDiscounted(SubSeq(itemPrices, 1, Len(itemPrices) - 1)),
              RMul(itemPrices[Len(itemPrices)].discountedPrice,
                   R(itemPrices[Len(itemPrices)].quantity)))

\* the allocated total: the sum of the entries times the bundle quantity
AllocatedTotal == RMul(SumDiscounted(result.itemPrices), R(quantity))

\* the absolute value of a number
Magnitude(a) == [a EXCEPT !.neg = FALSE]

\* 2^-48, the relative error allowed to the roundings of the allocation
Tolerance == Number("finite", FALSE, <<1>>, -48)

\* C24 as stated: when a discount was applied and originalPrice > 0, the sum
\* over itemPrices of discountedPrice * quantity, times the bundle quantity,
\* is the aggregate discountedPrice.
C24_AllocationConserved ==
    (Done /\ result.appliedDiscount # NoDiscount /\ RLt(R(0), result.originalPrice)) =>
        AllocatedTotal = result.discountedPrice

\* C24: when a discount was applied and originalPrice > 0, the sum over
\* itemPrices of discountedPrice * quantity, times the bundle quantity, is
\* the aggregate discountedPrice up to the rounding of the floating-point
\* operations: the two differ by at most 2^-48 of discountedPrice.
C24_AllocationWithinRounding ==
    (Done /\ result.appliedDiscount # NoDiscount /\ RLt(R(0), result.originalPrice)) =>
        RLe(Magnitude(RSub(AllocatedTotal, result.discountedPrice)),
            RMul(Magnitude(result.discountedPrice), Tolerance))

C24_Witness ==
    /\ Done
    /\ bundle.type = FIXED
    /\ bundle.price = R(50)
    /\ quantity = 1
    /\ result.appliedDiscount # NoDiscount
    /\ result.originalPrice = R(60)
    /\ result.discountedPrice = R(50)
    /\ Len(result.itemPrices) = 2
    /\ result.itemPrices[1].discountedPrice = RMul(R(10), RDiv(R(50), R(60)))
    /\ result.itemPrices[2].quantity = 2
    /\ AllocatedTotal # R(50)
    /\ RLt(R(49), AllocatedTotal)
    /\ RLt(AllocatedTotal, R(51))

\* C25: a storefront answer with isValid = true carries a pricing that is
\* not null, is valid and has no validationErrors; an answer with
\* isValid = false carries pricing null.
C25_StorefrontPricing ==
    Done =>
        /\ storefrontResponse.isValid
              => /\ storefrontResponse.pricing # NoResult
                 /\ storefrontResponse.pricing.isValid
                 /\ storefrontResponse.pricing.validationErrors = <<>>
        /\ ~storefrontResponse.isValid
              => storefrontResponse.pricing = NoResult

C25_Witness ==
    /\ Done
    /\ bundle.type = TIERED
    /\ storefrontResponse.isValid
    /\ storefrontResponse.pricing.isValid
    /\ storefrontResponse.pricing.discountedPrice = R(15 * quantity)

\* C26: for a MIX_MATCH bundle with allowDuplicates = false the admin
\* validator reports NO_DUPLICATES for a variant key exactly when the
\* quantities of the selected entries with that key sum to more than 1.
C26_DuplicateBySummedQuantity ==
    (Done /\ bundle.type = MIX_MATCH /\ ~bundle.allowDuplicates) =>
        \A key \in VariantIds :
            (\E i \in AdminErrors("NO_DUPLICATES") :
                 adminResponse.errors[i].message =
                     <<"Duplicate selection not allowed: ", key>>)
              <=> SelectedQuantityOf(key) > 1

C26_Witness ==
    /\ Done
    /\ bundle.type = MIX_MATCH
    /\ ~bundle.allowDuplicates
    /\ Len(selectedItems) = 1
    /\ selectedItems[1].quantity = 2
    /\ Cardinality(AdminErrors("NO_DUPLICATES")) = 1

\* C22: on a bundle whose checks compare ids (category membership,
\* duplicates, tier allow-list, same product, inventory key), the
\* selection-time validators give the same verdict on a request whether its
\* product and variant ids are written in numeric form or in gid:// form:
\* the admin validator answers the same isValid and the same category
\* totals, and the storefront validator answers the same isValid on the
\* bundle, the instant and the stock it has read.
C22_IdFormIndependent ==
    (Done /\ bundle.type # FIXED) =>
        /\ LET gidResponse == adminValidate(bundle, GidSelection(selectedItems),
                                            tierId, quantity)
           IN  /\ gidResponse.isValid = adminResponse.isValid
               /\ gidResponse.categoryTotals = adminResponse.categoryTotals
        /\ storefrontValidate(storefrontCall.bundle, GidSelection(selectedItems),
                              tierId, quantity, inventory,
                              storefrontCall.now).isValid
               = storefrontResponse.isValid

\* the stored bundle has both dates and they are not in order
DatesOutOfOrder(row) ==
    /\ row # NoRow
    /\ row.startDate # NullStr
    /\ row.endDate # NullStr
    /\ DateTime(row.startDate) >= DateTime(row.endDate)

\* C27: after any sequence of create, update and schedule requests every
\* stored bundle that has both dates has startDate before endDate, and a
\* request answered 400 has left the store as it was.
C27_StoredDatesOrdered ==
    [][/\ \A id \in BundleIds : ~DatesOutOfOrder(store'[id])
       /\ response'.status = 400 => store' = store]_vars

\* C28: a request of one shop that names a bundle of another shop leaves
\* that bundle as it was, on every route that writes bundles.
C28_OnlyTheOwnerWrites ==
    [][\A id \in BundleIds :
          (store[id] # NoRow /\ request'.id = id /\ request'.shop # store[id].shop)
              => store'[id] = store[id]]_vars

\* C29: a PUT that fails validateBundle is answered 400 and writes nothing,
\* and no step of a PUT changes one of items, tiers, volumeRules and
\* categories that its body omits.
C29_PutFrame ==
    [][request'.route = "PUT /api/bundles/:id" =>
          /\ response'.status = 400 => store' = store
          /\ (store[request'.id] # NoRow /\ store'[request'.id] # NoRow) =>
                LET before == store[request'.id]
                    after == store'[request'.id]
                    body == request'.body
                IN  /\ body.items = UndefinedItems => after.items = before.items
                    /\ body.tiers = UndefinedList => after.tiers = before.tiers
                    /\ body.volumeRules = UndefinedList
                          => after.volumeRules = before.volumeRules
                    /\ body.categories = UndefinedCategories
                          => after.categories = before.categories]_vars

\* the least of floor(available / required) over the returned items
LeastBundles(items) ==
    CHOOSE n \in {items[i].available \div items[i].required : i \in DOMAIN items} :
        \A i \in DOMAIN items : n <= items[i].available \div items[i].required

\* C30: in every answer of the inventory check isAvailable is true exactly
\* when availableQuantity > 0, exactly one returned item is limiting and it
\* is the limitingItem, and availableQuantity is the least number of bundles
\* an item allows, whatever the quantity parameter.
C30_InventoryResponse ==
    (Done /\ request.route = "GET /api/inventory/check"
          /\ response.status = 200) =>
        /\ response.isAvailable <=> response.availableQuantity > 0
        /\ response.items # <<>> =>
              /\ \E i \in DOMAIN response.items :
                    /\ response.items[i].isLimiting
                    /\ response.items[i] = response.limitingItem
                    /\ \A j \in DOMAIN response.items :
                          response.items[j].isLimiting => j = i
              /\ (\A i \in DOMAIN response.items : response.items[i].required > 0)
                    => response.availableQuantity = LeastBundles(response.items)


====
